---- MODULE Spec2Model ----
(***************************************************************************)
(* SquadAID (src-tauri): the workflow engine run_workflow of main.rs, the  *)
(* role commands of commands/roles.rs and the entities of models/ with the *)
(* commands that store them, as state machines.                            *)
(*                                                                         *)
(* run_workflow: one invocation is a sequential task; its local state      *)
(* (adj_list, node_map, queue, visited) is per run, the window it emits to *)
(* is shared by the invocations made from that window.  Every window.emit  *)
(* is one step, because an emit is the only point where another run's      *)
(* emit can come in between and the only point where the run can fail      *)
(* after validation.                                                       *)
(***************************************************************************)
EXTENDS Integers, Sequences, FiniteSets, TLC

VARIABLES
    graph_state_json,   \* the command's argument: [ok, nodes, edges] (ok: serde_json parses it)
    pc,                 \* pc[r]: position of run r in run_workflow
    adj_list,           \* adj_list[r]: HashMap<String, Vec<String>> of run r
    node_map,           \* node_map[r]: the keys of node_map of run r
    queue,              \* queue[r]: VecDeque<String>
    visited,            \* visited[r]: HashSet<String>
    result,             \* result[r]: what run r returned to its caller
    emits,              \* emits[r]: the events run r handed to window.emit, in order
    window,             \* the events the window received, each tagged with the emitting run
    roles,              \* the roles table: id -> row, for the ids that have a row
    rpc,                \* rpc[c]: position of role command c
    rreq,               \* rreq[c]: the request command c is serving
    rres,               \* rres[c]: what command c returned
    now,                \* chrono::Utc::now(), a logical clock in milliseconds
    interaction,        \* an AgentInteraction value held by a caller
    interactions,       \* the interactions table: id -> row, for the ids that have a row
    icall,              \* the last operation on an interaction: its name, arguments, result
    stats,              \* the get_interaction_stats in flight: its position and its counts
    agents,             \* the agents table: id -> row, for the ids that have a row
    snap,               \* snap[c]: the EnhancedAgent value caller c holds
    apc,                \* apc[c]: how far caller c is with loading, changing and storing it
    acall,              \* acall[c]: the last operation of caller c on an agent
    recorded,           \* recorded[c]: the durations given to record_task_completion on snap[c]
    relationship,       \* an AgentRelationship value held by a caller
    colors              \* what the calls of effective_color on it returned, in order

wfvars == <<graph_state_json, pc, adj_list, node_map, queue, visited, result, emits, window>>
rolevars == <<roles, rpc, rreq, rres, now>>
intvars == <<interaction, interactions, icall, stats>>
agentvars == <<agents, snap, apc, acall, recorded>>
relvars == <<relationship, colors>>
\* the state of the entities other than roles
entvars == <<intvars, agentvars, relvars>>
vars == <<graph_state_json, pc, adj_list, node_map, queue, visited, result, emits, window,
          roles, rpc, rreq, rres, now, interaction, interactions, icall, stats,
          agents, snap, apc, acall, recorded, relationship, colors>>

-----------------------------------------------------------------------------
(* Bounds *)

\* longest edge list of the exhaustively enumerated graph descriptions
MaxEdges == 3
\* longest edge list of the graph descriptions two concurrent runs are given
MaxConcEdges == 2
\* last value of the logical clock, which starts at 1
MaxClock == 3
\* most fail calls made on one interaction
MaxFails == 2
\* most record_task_completion calls made on one agent
MaxTasks == 3
\* most effective_color calls made on one relationship
MaxCalls == 2

\* node ids of the enumerated graph descriptions (Node.id is a String)
NodeIds == {"A", "B", "C"}
\* the order in which a node list declares its nodes
IdOrder == <<"A", "B", "C", "D", "E">>
\* the invocations of run_workflow made from one window
Runs == {1, 2}
\* the role commands in flight at a time
Cmds == {1, 2}
\* the role id the commands are given, and the values of a role's content columns
RoleIds == {"r1"}
Names == {"n1", "n2"}

-----------------------------------------------------------------------------
(* Graph descriptions: struct GraphState, Node, Edge *)

Edge(s, t) == [source |-> s, target |-> t]

SeqsUpTo(S, n) == UNION {[1..k -> S] : k \in 0..n}

\* the node list declaring exactly the ids of S
NodeList(S) == SelectSeq(IdOrder, LAMBDA id : id \in S)

EdgePairs == {Edge(s, t) : s \in NodeIds, t \in NodeIds}

GraphsUpTo(n) ==
    {[ok |-> TRUE, nodes |-> NodeList(S), edges |-> es] :
        S \in SUBSET NodeIds, es \in SeqsUpTo(EdgePairs, n)}

\* a graph whose only short way to E leads through an id no node declares
DeepGraph ==
    [ok |-> TRUE,
     nodes |-> <<"A", "B", "C", "D", "E">>,
     edges |-> <<Edge("A", "X"), Edge("X", "E"), Edge("A", "B"), Edge("B", "C"),
                 Edge("C", "D"), Edge("C", "E")>>]

\* a diamond closed into a cycle, with a duplicate edge and a self-loop
DiamondGraph ==
    [ok |-> TRUE,
     nodes |-> <<"A", "B", "C", "D">>,
     edges |-> <<Edge("A", "C"), Edge("A", "B"), Edge("B", "D"), Edge("C", "D"),
                 Edge("D", "B"), Edge("A", "C"), Edge("D", "D")>>]

\* node lists that declare an id twice, or in another order
DuplicateIdGraphs ==
    {[ok |-> TRUE, nodes |-> ns, edges |-> es] :
        ns \in {<<"A", "A">>, <<"B", "A", "B">>, <<"C", "B", "A">>},
        es \in SeqsUpTo({Edge("A", "B"), Edge("B", "C"), Edge("C", "B")}, 2)}

\* a string serde_json cannot parse into a GraphState
Malformed == [ok |-> FALSE, nodes |-> <<>>, edges |-> <<>>]

Inputs == GraphsUpTo(MaxEdges) \cup DuplicateIdGraphs \cup {DeepGraph, DiamondGraph, Malformed}

ConcInputs == GraphsUpTo(MaxConcEdges) \cup {Malformed}

-----------------------------------------------------------------------------
(* Events: LogPayload on "execution-log", FinishedPayload on "execution-finished" *)

\* the message of a Visiting event is formatted from node_map[id]; the model
\* keeps the id, the key that selects that node's name and type
LogVisiting(id) ==
    [name |-> "execution-log", message |-> "[EXEC] Visiting node", node |-> id, success |-> FALSE]
LogEmpty ==
    [name |-> "execution-log", message |-> "[INFO] Workflow is empty. Nothing to run.",
     node |-> "", success |-> FALSE]
LogComplete ==
    [name |-> "execution-log", message |-> "[INFO] Workflow traversal complete.",
     node |-> "", success |-> FALSE]
Finished(s) ==
    [name |-> "execution-finished", message |-> "", node |-> "", success |-> s]

\* Result<(), String> of run_workflow
Running == [kind |-> "running", found |-> 0]
Ok == [kind |-> "ok", found |-> 0]
ErrDeserialize == [kind |-> "err_deserialize", found |-> 0]
ErrStartNodes(k) == [kind |-> "err_start_nodes", found |-> k]
ErrEmit == [kind |-> "err_emit", found |-> 0]

-----------------------------------------------------------------------------
(* Setup phase of run_workflow *)

Nodes == graph_state_json.nodes
Edges == graph_state_json.edges

Range(s) == {s[i] : i \in DOMAIN s}

\* for node in graph.nodes: node_map.insert(node.id, node); adj_list.insert(node.id, [])
NodeMapKeys(nodes) == Range(nodes)

\* for edge in graph.edges: if let Some(successors) = adj_list.get_mut(&edge.source)
\*                              { successors.push(edge.target) }
Successors(edges, id) ==
    LET from == SelectSeq(edges, LAMBDA e : e.source = id)
    IN  [i \in 1..Len(from) |-> from[i].target]

BuildAdjList(nodes, edges) == [id \in NodeMapKeys(nodes) |-> Successors(edges, id)]

\* a mutant: an edge target is recorded only when the edge's source is declared
EdgeTargetsOfDeclaredSources(nodes, edges) ==
    {edges[i].target : i \in {j \in DOMAIN edges : edges[j].source \in NodeMapKeys(nodes)}}

\* edge_targets.insert(edge.target), for every edge
EdgeTargets(nodes, edges) == {edges[i].target : i \in DOMAIN edges}

\* graph.nodes.iter().filter(|node| !edge_targets.contains(&node.id)).collect()
StartNodes(nodes, edges) ==
    SelectSeq(nodes, LAMBDA id : id \notin EdgeTargets(nodes, edges))

-----------------------------------------------------------------------------
(* Traversal *)

\* a mutant: an unvisited successor is queued without being marked as visited
RECURSIVE PushSuccessorsUnmarked(_, _, _)
PushSuccessorsUnmarked(succ, vis, q) ==
    IF succ = <<>> THEN [visited |-> vis, queue |-> q]
    ELSE IF Head(succ) \in vis
         THEN PushSuccessorsUnmarked(Tail(succ), vis, q)
         ELSE PushSuccessorsUnmarked(Tail(succ), vis, Append(q, Head(succ)))

\* for successor_id in successors: if !visited.contains(s) { visited.insert(s); queue.push_back(s) }
RECURSIVE PushSuccessors(_, _, _)
PushSuccessors(succ, vis, q) ==
    IF succ = <<>> THEN [visited |-> vis, queue |-> q]
    ELSE IF Head(succ) \in vis
         THEN PushSuccessors(Tail(succ), vis, q)
         ELSE PushSuccessors(Tail(succ), vis \cup {Head(succ)}, Append(q, Head(succ)))

\* window.emit(..).map_err(|e| e.to_string())?  succeeding: the window receives the event
EmitOk(r, ev) ==
    /\ emits' = [emits EXCEPT ![r] = Append(@, ev)]
    /\ window' = Append(window, [run |-> r, ev |-> ev])

\* a mutant: a failed emit is not returned; the run stays where it is and emits again
EmitFailRetried(r, ev) ==
    /\ emits' = [emits EXCEPT ![r] = Append(@, ev)]
    /\ window' = window
    /\ UNCHANGED <<graph_state_json, pc, adj_list, node_map, queue, visited, result>>

\* window.emit(..).map_err(|e| e.to_string())?  failing: the run returns the error
EmitFail(r, ev) ==
    /\ emits' = [emits EXCEPT ![r] = Append(@, ev)]
    /\ window' = window
    /\ pc' = [pc EXCEPT ![r] = "done"]
    /\ result' = [result EXCEPT ![r] = ErrEmit]
    /\ UNCHANGED <<graph_state_json, adj_list, node_map, queue, visited>>

\* a mutant: the empty node list is not short-circuited
AfterParseNoEmptyCheck(nodes) == "setup"

\* if graph.nodes.is_empty() { .. return Ok(()) }
AfterParse(nodes) == IF nodes = <<>> THEN "empty_log" ELSE "setup"

\* serde_json::from_str(&graph_state_json).map_err(|e| e.to_string())?
Parse(r) ==
    /\ pc[r] = "invoked"
    /\ IF graph_state_json.ok
       THEN /\ pc' = [pc EXCEPT ![r] = AfterParse(Nodes)]
            /\ result' = result
       ELSE /\ pc' = [pc EXCEPT ![r] = "done"]
            /\ result' = [result EXCEPT ![r] = ErrDeserialize]
    /\ UNCHANGED <<graph_state_json, adj_list, node_map, queue, visited, emits, window>>
    /\ UNCHANGED rolevars
    /\ UNCHANGED entvars

\* if graph.nodes.is_empty(): emit the informational log
EmptyLog(r) ==
    /\ pc[r] = "empty_log"
    /\ \/ /\ EmitOk(r, LogEmpty)
          /\ pc' = [pc EXCEPT ![r] = "empty_finished"]
          /\ UNCHANGED <<graph_state_json, adj_list, node_map, queue, visited, result>>
       \/ EmitFail(r, LogEmpty)
    /\ UNCHANGED rolevars
    /\ UNCHANGED entvars

\* ... then emit execution-finished and return Ok(())
EmptyFinished(r) ==
    /\ pc[r] = "empty_finished"
    /\ \/ /\ EmitOk(r, Finished(TRUE))
          /\ pc' = [pc EXCEPT ![r] = "done"]
          /\ result' = [result EXCEPT ![r] = Ok]
          /\ UNCHANGED <<graph_state_json, adj_list, node_map, queue, visited>>
       \/ EmitFail(r, Finished(TRUE))
    /\ UNCHANGED rolevars
    /\ UNCHANGED entvars

\* build adj_list, node_map and edge_targets, select the start nodes, and either
\* return the validation error or seed queue and visited with the start node
Setup(r) ==
    /\ pc[r] = "setup"
    /\ LET start_nodes == StartNodes(Nodes, Edges)
       IN  /\ adj_list' = [adj_list EXCEPT ![r] = BuildAdjList(Nodes, Edges)]
           /\ node_map' = [node_map EXCEPT ![r] = NodeMapKeys(Nodes)]
           /\ IF Len(start_nodes) # 1
              THEN /\ pc' = [pc EXCEPT ![r] = "done"]
                   /\ result' = [result EXCEPT ![r] = ErrStartNodes(Len(start_nodes))]
                   /\ UNCHANGED <<queue, visited>>
              ELSE /\ pc' = [pc EXCEPT ![r] = "traverse"]
                   /\ queue' = [queue EXCEPT ![r] = <<start_nodes[1]>>]
                   /\ visited' = [visited EXCEPT ![r] = {start_nodes[1]}]
                   /\ result' = result
    /\ UNCHANGED <<graph_state_json, emits, window>>
    /\ UNCHANGED rolevars
    /\ UNCHANGED entvars

\* a mutant: the newest id is taken, from the back of the queue
PopBack(q) == [node_id |-> q[Len(q)], rest |-> SubSeq(q, 1, Len(q) - 1)]

\* queue.pop_front()
PopFront(q) == [node_id |-> Head(q), rest |-> Tail(q)]

\* a mutant: the successors are pushed in an order of the map's choosing
AfterVisitAnyOrder(r, node_id, rest) ==
    LET succ == adj_list[r][node_id]
        n == Len(succ)
    IN  \E p \in {f \in [1..n -> 1..n] : \A i, j \in 1..n : f[i] = f[j] => i = j} :
            LET pushed == PushSuccessors([i \in 1..n |-> succ[p[i]]], visited[r], rest)
            IN  /\ visited' = [visited EXCEPT ![r] = pushed.visited]
                /\ queue' = [queue EXCEPT ![r] = pushed.queue]

\* if let Some(successors) = adj_list.get(&node_id) { for successor_id in successors {..} }
AfterVisit(r, node_id, rest) ==
    LET pushed == PushSuccessors(adj_list[r][node_id], visited[r], rest)
    IN  /\ visited' = [visited EXCEPT ![r] = pushed.visited]
        /\ queue' = [queue EXCEPT ![r] = pushed.queue]

\* a mutant: every dequeued id is reported, declared or not
VisitsEveryId(r, node_id) == TRUE

\* if let Some(node) = node_map.get(&node_id)
IsDeclared(r, node_id) == node_id \in node_map[r]

\* a mutant: the loop looks at the front of the queue and pops only a declared id
SkipWithoutPop(r, rest) ==
    UNCHANGED <<graph_state_json, pc, adj_list, node_map, queue, visited, result,
                emits, window>>

\* a mutant: a dequeued id that names no node ends the run with an error
FailOnUndeclared(r, rest) ==
    /\ pc' = [pc EXCEPT ![r] = "done"]
    /\ result' = [result EXCEPT ![r] = ErrStartNodes(0)]
    /\ queue' = [queue EXCEPT ![r] = rest]
    /\ UNCHANGED <<graph_state_json, adj_list, node_map, visited, emits, window>>

\* the dequeued id names no node: the loop body does nothing
SkipUndeclared(r, rest) ==
    /\ queue' = [queue EXCEPT ![r] = rest]
    /\ UNCHANGED <<graph_state_json, pc, adj_list, node_map, visited, result,
                   emits, window>>

\* one iteration of  while let Some(node_id) = queue.pop_front()
Visit(r) ==
    /\ pc[r] = "traverse"
    /\ queue[r] # <<>>
    /\ LET popped == PopFront(queue[r])
           node_id == popped.node_id
       IN  IF IsDeclared(r, node_id)
           THEN \/ /\ EmitOk(r, LogVisiting(node_id))
                   /\ IF node_id \in DOMAIN adj_list[r]
                      THEN AfterVisit(r, node_id, popped.rest)
                      ELSE /\ queue' = [queue EXCEPT ![r] = popped.rest]
                           /\ visited' = visited
                   /\ UNCHANGED <<graph_state_json, pc, adj_list, node_map, result>>
                \/ EmitFail(r, LogVisiting(node_id))
           ELSE SkipUndeclared(r, popped.rest)
    /\ UNCHANGED rolevars
    /\ UNCHANGED entvars

\* the queue is empty: emit the traversal-complete log
Complete(r) ==
    /\ pc[r] = "traverse"
    /\ queue[r] = <<>>
    /\ \/ /\ EmitOk(r, LogComplete)
          /\ pc' = [pc EXCEPT ![r] = "finished"]
          /\ UNCHANGED <<graph_state_json, adj_list, node_map, queue, visited, result>>
       \/ EmitFail(r, LogComplete)
    /\ UNCHANGED rolevars
    /\ UNCHANGED entvars

\* a mutant: the run returns Ok(()) without the execution-finished event
FinishWithoutEvent(r) ==
    /\ pc[r] = "finished"
    /\ pc' = [pc EXCEPT ![r] = "done"]
    /\ result' = [result EXCEPT ![r] = Ok]
    /\ UNCHANGED <<graph_state_json, adj_list, node_map, queue, visited, emits, window>>
    /\ UNCHANGED rolevars
    /\ UNCHANGED entvars

\* emit execution-finished and return Ok(())
Finish(r) ==
    /\ pc[r] = "finished"
    /\ \/ /\ EmitOk(r, Finished(TRUE))
          /\ pc' = [pc EXCEPT ![r] = "done"]
          /\ result' = [result EXCEPT ![r] = Ok]
          /\ UNCHANGED <<graph_state_json, adj_list, node_map, queue, visited>>
       \/ EmitFail(r, Finished(TRUE))
    /\ UNCHANGED rolevars
    /\ UNCHANGED entvars

RunStep(r) ==
    \/ Parse(r)
    \/ EmptyLog(r)
    \/ EmptyFinished(r)
    \/ Setup(r)
    \/ Visit(r)
    \/ Complete(r)
    \/ Finish(r)

-----------------------------------------------------------------------------
(* Roles: struct Role, struct RoleRow and the commands of commands/roles.rs *)

\* a Role as a command receives it: name stands for the content fields (name,
\* description, icon, color, capabilities, system_prompt, tools, constraints,
\* version, tags), which every query reads and writes together
RoleInputs ==
    [id : RoleIds, name : Names, is_built_in : BOOLEAN, created_at : {0}, updated_at : {0}]

NoRole == [id |-> "", name |-> "", is_built_in |-> FALSE, created_at |-> 0, updated_at |-> 0]

\* impl From<Role> for RoleRow: the columns of the row, the id being its key
RoleRowFrom(role) ==
    [name |-> role.name, is_built_in |-> role.is_built_in,
     created_at |-> role.created_at, updated_at |-> role.updated_at]

NoRequest == [op |-> "none", id |-> "", role |-> NoRole]
CreateRequest(role) == [op |-> "create", id |-> role.id, role |-> role]
UpdateRequest(role) == [op |-> "update", id |-> role.id, role |-> role]
DeleteRequest(id) == [op |-> "delete", id |-> id, role |-> NoRole]

\* Result<Role, String> and Result<(), String> of the role commands
NoResult == [kind |-> "none", role |-> NoRole]
RoleOk(role) == [kind |-> "ok", role |-> role]
ErrCreate == [kind |-> "Failed to create role", role |-> NoRole]
ErrModifyBuiltIn == [kind |-> "Cannot modify built-in roles", role |-> NoRole]
ErrDeleteBuiltIn == [kind |-> "Cannot delete built-in roles", role |-> NoRole]

\* a mutant: the guard query is not made
BuiltInNotChecked(store, id) == FALSE

\* SELECT is_built_in FROM roles WHERE id = ?  .fetch_optional .flatten().unwrap_or(false)
SelectIsBuiltIn(store, id) ==
    IF id \in DOMAIN store THEN store[id].is_built_in ELSE FALSE

\* the roles table keeps one row per id: an INSERT of an id that has a row fails
InsertFails(store, id) == id \in DOMAIN store

\* INSERT INTO roles (..) VALUES (..)
InsertRole(store, id, row) ==
    [k \in DOMAIN store \cup {id} |-> IF k = id THEN row ELSE store[k]]

\* a mutant: the UPDATE also writes the is_built_in flag of the role it is handed
UpdateRoleRowWithFlag(store, id, row, updated_at) ==
    [k \in DOMAIN store |->
        IF k = id
        THEN [store[k] EXCEPT !.name = row.name, !.is_built_in = row.is_built_in,
                              !.updated_at = updated_at]
        ELSE store[k]]

\* a mutant: the UPDATE inserts the row when the id has none
UpsertRoleRow(store, id, row, updated_at) ==
    [k \in DOMAIN store \cup {id} |->
        IF k = id
        THEN [row EXCEPT !.updated_at = updated_at]
        ELSE store[k]]

\* UPDATE roles SET name = ?, .., updated_at = ? WHERE id = ?
UpdateRoleRow(store, id, row, updated_at) ==
    [k \in DOMAIN store |->
        IF k = id
        THEN [store[k] EXCEPT !.name = row.name, !.updated_at = updated_at]
        ELSE store[k]]

\* DELETE FROM roles WHERE id = ?
DeleteRoleRow(store, id) == [k \in DOMAIN store \ {id} |-> store[k]]

Idle(c) == rpc[c] \in {"idle", "returned"}

\* create_role: the INSERT and the return
CreateRole(c) ==
    /\ Idle(c)
    /\ \E role \in RoleInputs :
          /\ rreq' = [rreq EXCEPT ![c] = CreateRequest(role)]
          /\ IF InsertFails(roles, role.id)
             THEN /\ roles' = roles
                  /\ rres' = [rres EXCEPT ![c] = ErrCreate]
             ELSE /\ roles' = InsertRole(roles, role.id, RoleRowFrom(role))
                  /\ rres' = [rres EXCEPT ![c] = RoleOk(role)]
    /\ rpc' = [rpc EXCEPT ![c] = "returned"]
    /\ UNCHANGED now
    /\ UNCHANGED wfvars
    /\ UNCHANGED entvars

\* update_role, up to the built-in guard: the SELECT and the early return
UpdateRoleCheck(c) ==
    /\ Idle(c)
    /\ \E role \in RoleInputs :
          LET is_built_in == SelectIsBuiltIn(roles, role.id)
          IN  /\ rreq' = [rreq EXCEPT ![c] = UpdateRequest(role)]
              /\ IF is_built_in
                 THEN /\ rpc' = [rpc EXCEPT ![c] = "returned"]
                      /\ rres' = [rres EXCEPT ![c] = ErrModifyBuiltIn]
                 ELSE /\ rpc' = [rpc EXCEPT ![c] = "update_write"]
                      /\ rres' = [rres EXCEPT ![c] = NoResult]
    /\ UNCHANGED <<roles, now>>
    /\ UNCHANGED wfvars
    /\ UNCHANGED entvars

\* update_role, after the guard: the UPDATE and the return of the role
UpdateRoleWrite(c) ==
    /\ rpc[c] = "update_write"
    /\ roles' = UpdateRoleRow(roles, rreq[c].id, RoleRowFrom(rreq[c].role), now)
    /\ rpc' = [rpc EXCEPT ![c] = "returned"]
    /\ rres' = [rres EXCEPT ![c] = RoleOk(rreq[c].role)]
    /\ UNCHANGED <<rreq, now>>
    /\ UNCHANGED wfvars
    /\ UNCHANGED entvars

\* delete_role, up to the built-in guard: the SELECT and the early return
DeleteRoleCheck(c) ==
    /\ Idle(c)
    /\ \E id \in RoleIds :
          LET is_built_in == SelectIsBuiltIn(roles, id)
          IN  /\ rreq' = [rreq EXCEPT ![c] = DeleteRequest(id)]
              /\ IF is_built_in
                 THEN /\ rpc' = [rpc EXCEPT ![c] = "returned"]
                      /\ rres' = [rres EXCEPT ![c] = ErrDeleteBuiltIn]
                 ELSE /\ rpc' = [rpc EXCEPT ![c] = "delete_write"]
                      /\ rres' = [rres EXCEPT ![c] = NoResult]
    /\ UNCHANGED <<roles, now>>
    /\ UNCHANGED wfvars
    /\ UNCHANGED entvars

\* delete_role, after the guard: the DELETE and the return
DeleteRoleWrite(c) ==
    /\ rpc[c] = "delete_write"
    /\ roles' = DeleteRoleRow(roles, rreq[c].id)
    /\ rpc' = [rpc EXCEPT ![c] = "returned"]
    /\ rres' = [rres EXCEPT ![c] = RoleOk(NoRole)]
    /\ UNCHANGED <<rreq, now>>
    /\ UNCHANGED wfvars
    /\ UNCHANGED entvars

\* time passes
Tick ==
    /\ now < MaxClock
    /\ now' = now + 1
    /\ UNCHANGED <<roles, rpc, rreq, rres>>
    /\ UNCHANGED wfvars
    /\ UNCHANGED entvars

-----------------------------------------------------------------------------
(* Interactions: struct AgentInteraction of models/interaction.rs *)

\* enum InteractionStatus
InteractionStatuses == {"Pending", "InProgress", "Completed", "Failed", "Cancelled"}

\* a String holding a timestamp: what to_rfc3339 writes for the instant t, and a
\* string that is no RFC 3339 timestamp
Rfc3339(t) == [rfc3339 |-> TRUE, millis |-> t]
NotRfc3339 == [rfc3339 |-> FALSE, millis |-> 0]

\* chrono::Utc::now().to_rfc3339()
ToRfc3339(t) == Rfc3339(t)

\* chrono::DateTime::parse_from_rfc3339(s), and timestamp_millis() of its Ok value
ParseFromRfc3339(s) ==
    IF s.rfc3339 THEN [ok |-> TRUE, millis |-> s.millis] ELSE [ok |-> FALSE, millis |-> 0]

\* Option<String>
NoString == [some |-> FALSE, str |-> NotRfc3339]
SomeString(s) == [some |-> TRUE, str |-> s]

\* (d as u64) of an i64 d: the value is two64 * 2^64 + plus, which is d for d >= 0
\* and 2^64 + d for d < 0
AsU64(d) == [two64 |-> IF d < 0 THEN 1 ELSE 0, plus |-> d]

\* Option<u64>
NoU64 == [some |-> FALSE, val |-> AsU64(0)]
SomeU64(u) == [some |-> TRUE, val |-> u]

\* AgentInteraction::new(id, .., message): message is the text of content.message
\* as the list of its pieces; priority stands for the fields no method assigns
\* and no query selects by (the agent ids, interaction_type, priority, the rest of content,
\* related_task_id, parent_interaction_id)
NewAgentInteraction(id, workflow_id, message, t) ==
    [id |-> id, workflow_id |-> workflow_id, status |-> "Pending",
     priority |-> "Normal", message |-> <<message>>,
     duration_ms |-> NoU64, created_at |-> ToRfc3339(t), completed_at |-> NoString]

\* a mutant: the duration is computed whether or not created_at parses
InteractionCompleteUnparsed(self, t1, t2) ==
    [self EXCEPT !.status = "Completed",
                 !.completed_at = SomeString(ToRfc3339(t1)),
                 !.duration_ms = SomeU64(AsU64(t2 - self.created_at.millis))]

\* AgentInteraction::complete(&mut self); t1 and t2 are what its two calls of
\* Utc::now() return
InteractionComplete(self, t1, t2) ==
    LET created == ParseFromRfc3339(self.created_at)
    IN  [self EXCEPT !.status = "Completed",
                     !.completed_at = SomeString(ToRfc3339(t1)),
                     !.duration_ms = IF created.ok
                                     THEN SomeU64(AsU64(t2 - created.millis))
                                     ELSE @]

\* a mutant: fail computes the duration as complete does
InteractionFailWithDuration(self, error_message, t) ==
    [self EXCEPT !.status = "Failed",
                 !.completed_at = SomeString(ToRfc3339(t)),
                 !.message = @ \o <<"\n\nError: ", error_message>>,
                 !.duration_ms = SomeU64(AsU64(t - self.created_at.millis))]

\* a mutant: fail leaves completed_at as it was
InteractionFailUnstamped(self, error_message, t) ==
    [self EXCEPT !.status = "Failed",
                 !.message = @ \o <<"\n\nError: ", error_message>>]

\* AgentInteraction::fail(&mut self, error_message)
InteractionFail(self, error_message, t) ==
    [self EXCEPT !.status = "Failed",
                 !.completed_at = SomeString(ToRfc3339(t)),
                 !.message = @ \o <<"\n\nError: ", error_message>>]

\* the ids and texts the operations on interactions are given
InteractionIds == {"i1"}
WorkflowIds == {"w1"}
Reasons == {"e1"}

\* the AgentInteraction values a caller may hold: deserialized from the frontend or
\* from a row, so with any status, with or without a duration and a completion
\* time, and with a created_at that is a past or a future instant or no timestamp
InteractionInputs ==
    [id : InteractionIds, workflow_id : WorkflowIds, status : InteractionStatuses,
     priority : {"Normal"},
     message : {<<"m">>},
     duration_ms : {NoU64, SomeU64(AsU64(0)), SomeU64(AsU64(MaxClock + 1))},
     created_at : {NotRfc3339, Rfc3339(0), Rfc3339(MaxClock + 1)},
     completed_at : {NoString, SomeString(Rfc3339(0))}]

NoInteraction == NewAgentInteraction("", "", "", 0)

\* Option<String> of a workflow id, and a get_interaction_stats command: where it
\* is, the workflow id it was given, what its queries returned, and the pending
\* it reports
NoWorkflow == [some |-> FALSE, str |-> ""]
SomeWorkflow(wf_id) == [some |-> TRUE, str |-> wf_id]
NoStats ==
    [pc |-> "idle", workflow_id |-> NoWorkflow, total |-> 0, completed |-> 0,
     failed |-> 0, pending |-> 0]
\* the last operation on an interaction
NoCall ==
    [op |-> "none", id |-> "", status |-> "", reason |-> "", ok |-> TRUE]
Called(op, status, reason) == [NoCall EXCEPT !.op = op, !.status = status, !.reason = reason]
CalledOn(op, id, status) == [NoCall EXCEPT !.op = op, !.id = id, !.status = status]

\* the number of fail calls whose reason the message holds
FailCount(self) == (Len(self.message) - 1) \div 2

\* a caller makes a new interaction
NewInteraction ==
    /\ \E id \in InteractionIds, workflow_id \in WorkflowIds :
          interaction' = NewAgentInteraction(id, workflow_id, "m", now)
    /\ icall' = Called("new", "", "")
    /\ UNCHANGED <<interactions, stats, now>>
    /\ UNCHANGED <<wfvars, roles, rpc, rreq, rres, agentvars, relvars>>

\* a caller calls complete() on its interaction; the clock may advance between
\* the two readings the call makes
CallComplete ==
    /\ \E t2 \in {now, now + 1} :
          /\ t2 <= MaxClock
          /\ interaction' = InteractionComplete(interaction, now, t2)
          /\ now' = t2
    /\ icall' = Called("complete", "", "")
    /\ UNCHANGED <<interactions, stats>>
    /\ UNCHANGED <<wfvars, roles, rpc, rreq, rres, agentvars, relvars>>

\* a caller calls fail(error_message) on its interaction
CallFail ==
    /\ FailCount(interaction) < MaxFails
    /\ \E error_message \in Reasons :
          /\ interaction' = InteractionFail(interaction, error_message, now)
          /\ icall' = Called("fail", "", error_message)
    /\ UNCHANGED <<interactions, stats, now>>
    /\ UNCHANGED <<wfvars, roles, rpc, rreq, rres, agentvars, relvars>>

-----------------------------------------------------------------------------
(* f64: the non-negative finite doubles and the three operations that
   record_task_completion applies to them, each rounded to nearest, ties to even.
   A natural number is the sequence of its digits in base 2^LimbBits, least
   significant first, with no leading zero digit; a double is [m, e] with value
   m * 2^e, where m has exactly F64MantissaBits binary digits unless the value is 0. *)

\* the significand of an IEEE 754 binary64 has 53 binary digits
F64MantissaBits == 53
\* the binary digits computed beyond F64MantissaBits before a quotient is rounded
F64GuardBits == 12
\* the binary digits of one digit of a natural number
LimbBits == 15
Base == 2^LimbBits

\* the digits of the natural number n
RECURSIVE Limbs(_)
Limbs(n) == IF n = 0 THEN <<>> ELSE <<n % Base>> \o Limbs(n \div Base)

\* a without leading zero digits
TrimLimbs(a) ==
    LET S == {i \in DOMAIN a : a[i] # 0}
    IN  IF S = {} THEN <<>> ELSE SubSeq(a, 1, CHOOSE i \in S : \A j \in S : j <= i)

Limb(a, i) == IF i \in DOMAIN a THEN a[i] ELSE 0

\* a + b, digit by digit from position i with the carry so far
RECURSIVE AddFrom(_, _, _, _)
AddFrom(a, b, i, carry) ==
    IF i > Len(a) /\ i > Len(b)
    THEN IF carry = 0 THEN <<>> ELSE <<carry>>
    ELSE LET s == Limb(a, i) + Limb(b, i) + carry
         IN  <<s % Base>> \o AddFrom(a, b, i + 1, s \div Base)

AddLimbs(a, b) == TrimLimbs(AddFrom(a, b, 1, 0))

\* a * c for a natural number c < Base, from position i with the carry so far
RECURSIVE MulFrom(_, _, _, _)
MulFrom(a, c, i, carry) ==
    IF i > Len(a)
    THEN IF carry = 0 THEN <<>> ELSE <<carry>>
    ELSE LET p == a[i] * c + carry
         IN  <<p % Base>> \o MulFrom(a, c, i + 1, p \div Base)

MulSmall(a, c) == TrimLimbs(MulFrom(a, c, 1, 0))

\* a divided by the natural number n, 0 < n < Base, from the digit at position i
\* down with the remainder so far: [q, r], the quotient's digits least significant first
RECURSIVE DivFrom(_, _, _, _)
DivFrom(a, n, i, rem) ==
    IF i = 0 THEN [q |-> <<>>, r |-> rem]
    ELSE LET cur == rem * Base + a[i]
             rest == DivFrom(a, n, i - 1, cur % n)
         IN  [q |-> Append(rest.q, cur \div n), r |-> rest.r]

DivSmall(a, n) ==
    LET d == DivFrom(a, n, Len(a), 0)
    IN  [q |-> TrimLimbs(d.q), r |-> d.r]

\* a * 2^k
ShiftLeft(a, k) ==
    LET shifted == [i \in 1..(k \div LimbBits) |-> 0] \o MulSmall(a, 2^(k % LimbBits))
    IN  TrimLimbs(shifted)

\* a divided by 2^k: the quotient, and whether a 1 was shifted out
ShiftRight(a, k) ==
    LET n == IF k \div LimbBits < Len(a) THEN k \div LimbBits ELSE Len(a)
        d == DivSmall(SubSeq(a, n + 1, Len(a)), 2^(k % LimbBits))
    IN  [q |-> d.q, lost |-> d.r # 0 \/ \E i \in 1..n : a[i] # 0]

\* the number of binary digits of a
BitLen(a) ==
    IF a = <<>> THEN 0
    ELSE LimbBits * (Len(a) - 1)
             + CHOOSE b \in 1..LimbBits : 2^(b - 1) <= a[Len(a)] /\ a[Len(a)] < 2^b

F64Zero == [m |-> <<>>, e |-> 0]

\* the double nearest to N * 2^e (plus a little less than 2^e when sticky), ties to even
RoundF64(N, e, sticky) ==
    LET k == BitLen(N) - F64MantissaBits
    IN  IF N = <<>> THEN F64Zero
        ELSE IF k <= 0 THEN [m |-> ShiftLeft(N, -k), e |-> e + k]
        ELSE LET low == ShiftRight(N, k - 1)
                 keep == ShiftRight(low.q, 1).q
                 up == low.q[1] % 2 = 1 /\ (sticky \/ low.lost \/ keep[1] % 2 = 1)
                 M == IF up THEN AddLimbs(keep, <<1>>) ELSE keep
             IN  IF BitLen(M) > F64MantissaBits
                 THEN [m |-> ShiftRight(M, 1).q, e |-> e + k + 1]
                 ELSE [m |-> M, e |-> e + k]

\* (d as f64) of an unsigned integer d
F64FromInt(d) == RoundF64(Limbs(d), 0, FALSE)

\* x * y in f64, for y the double of the natural number c
F64MulInt(x, c) == RoundF64(MulSmall(x.m, c), x.e, FALSE)

\* x + y in f64
F64Add(x, y) ==
    LET e0 == IF x.e < y.e THEN x.e ELSE y.e
    IN  RoundF64(AddLimbs(ShiftLeft(x.m, x.e - e0), ShiftLeft(y.m, y.e - e0)), e0, FALSE)

\* x / y in f64, for y the double of the natural number n > 0
F64DivInt(x, n) ==
    LET d == DivSmall(ShiftLeft(x.m, F64GuardBits), n)
    IN  RoundF64(d.q, x.e - F64GuardBits, d.r # 0)

-----------------------------------------------------------------------------
(* Agents: struct EnhancedAgent and AgentMetrics of models/agent.rs *)

\* enum AgentStatus
AgentStatuses ==
    {"Idle", "Initializing", "Ready", "Running", "WaitingForInput",
     "WaitingForApproval", "Paused", "Completed", "Failed", "Cancelled"}

\* a mutant: only Running counts as active
IsActiveOnlyRunning(status) == status = "Running"

\* AgentStatus::is_active
IsActive(status) ==
    status \in {"Running", "WaitingForInput", "WaitingForApproval", "Paused"}

\* AgentMetrics::default()
DefaultMetrics ==
    [total_tasks |-> 0, completed_tasks |-> 0, failed_tasks |-> 0, total_tokens |-> 0,
     avg_response_time_ms |-> F64Zero, uptime_seconds |-> 0, last_active |-> NoString]

\* EnhancedAgent::new(id, name): name stands for the fields no method assigns
\* (name, description, role_id, mode, provider_config, system_prompt_override,
\* position, expanded, selected)
NewEnhancedAgent(id, name, t) ==
    [id |-> id, name |-> name, status |-> "Idle", metrics |-> DefaultMetrics,
     created_at |-> ToRfc3339(t), updated_at |-> ToRfc3339(t)]

\* a mutant: set_status refuses to leave a terminal status
SetStatusUnlessTerminal(self, status, t1, t2) ==
    IF self.status \in {"Completed", "Failed", "Cancelled"}
    THEN self
    ELSE [self EXCEPT !.status = status,
                      !.updated_at = ToRfc3339(t1),
                      !.metrics.last_active = IF IsActive(status)
                                              THEN SomeString(ToRfc3339(t2)) ELSE @]

\* a mutant: set_status also resets the uptime of the agent
SetStatusResettingUptime(self, status, t1, t2) ==
    [self EXCEPT !.status = status,
                 !.updated_at = ToRfc3339(t1),
                 !.metrics.uptime_seconds = @ + 1,
                 !.metrics.last_active = IF IsActive(status)
                                         THEN SomeString(ToRfc3339(t2)) ELSE @]

\* EnhancedAgent::set_status(&mut self, status); t1 and t2 are what its two calls
\* of Utc::now() return
SetStatusOf(self, status, t1, t2) ==
    [self EXCEPT !.status = status,
                 !.updated_at = ToRfc3339(t1),
                 !.metrics.last_active = IF IsActive(status)
                                         THEN SomeString(ToRfc3339(t2)) ELSE @]

\* a mutant: the average is taken over the tasks counted before this one
AverageOverPrevious(avg, total_tasks, duration_ms) ==
    IF total_tasks = 1 THEN F64FromInt(duration_ms)
    ELSE F64DivInt(F64Add(F64MulInt(avg, total_tasks - 1), F64FromInt(duration_ms)),
                   total_tasks - 1)

\* the two statements that update avg_response_time_ms, total_tasks being the
\* count after its increment
StreamingAverage(avg, total_tasks, duration_ms) ==
    LET total_time == F64MulInt(avg, total_tasks - 1)
    IN  F64DivInt(F64Add(total_time, F64FromInt(duration_ms)), total_tasks)

\* a mutant: a failed task is counted as completed as well
RecordTaskCompletionCountingBoth(self, success, tokens, duration_ms, t) ==
    LET total_tasks == self.metrics.total_tasks + 1
    IN  [self EXCEPT
            !.metrics.total_tasks = total_tasks,
            !.metrics.completed_tasks = @ + 1,
            !.metrics.failed_tasks = IF success THEN @ ELSE @ + 1,
            !.metrics.total_tokens = @ + tokens,
            !.metrics.avg_response_time_ms = StreamingAverage(@, total_tasks, duration_ms),
            !.updated_at = ToRfc3339(t)]

\* EnhancedAgent::record_task_completion(&mut self, success, tokens, duration_ms)
RecordTaskCompletionOf(self, success, tokens, duration_ms, t) ==
    LET total_tasks == self.metrics.total_tasks + 1
    IN  [self EXCEPT
            !.metrics.total_tasks = total_tasks,
            !.metrics.completed_tasks = IF success THEN @ + 1 ELSE @,
            !.metrics.failed_tasks = IF success THEN @ ELSE @ + 1,
            !.metrics.total_tokens = @ + tokens,
            !.metrics.avg_response_time_ms = StreamingAverage(@, total_tasks, duration_ms),
            !.updated_at = ToRfc3339(t)]

\* the callers that hold an agent, the id and name they give it, and the tokens
\* and durations they report
Callers == {1, 2}
AgentIds == {"a1"}
Tokens == {0, 1}
Durations == {0, 1}

\* the last operation of a caller on an agent
NoAgentCall ==
    [op |-> "none", id |-> "", status |-> "", success |-> FALSE, tokens |-> 0,
     duration_ms |-> 0]
StatusCall(op, id, status) == [NoAgentCall EXCEPT !.op = op, !.id = id, !.status = status]
RecordCall(id, success, tokens, duration_ms) ==
    [op |-> "record_task_completion", id |-> id, status |-> "", success |-> success,
     tokens |-> tokens, duration_ms |-> duration_ms]

\* caller c holds an agent whose methods it may call: one it made with new, or
\* one it loaded and has not changed yet
Holds(c) == apc[c] \in {"held", "loaded"}

\* after a method call, a caller that loaded the agent goes on to store it
AfterMethod(c) == [apc EXCEPT ![c] = IF @ = "loaded" THEN "changed" ELSE @]

\* caller c calls set_status(status) on its agent; the clock may advance between
\* the two readings the call makes
SetStatus(c) ==
    /\ Holds(c)
    /\ \E status \in AgentStatuses, t2 \in {now, now + 1} :
          /\ t2 <= MaxClock
          /\ snap' = [snap EXCEPT ![c] = SetStatusOf(@, status, now, t2)]
          /\ acall' = [acall EXCEPT ![c] = StatusCall("set_status", snap[c].id, status)]
          /\ now' = t2
    /\ apc' = AfterMethod(c)
    /\ UNCHANGED <<agents, recorded>>
    /\ UNCHANGED <<wfvars, roles, rpc, rreq, rres, intvars, relvars>>

\* caller c calls record_task_completion(success, tokens, duration_ms) on its agent
RecordTaskCompletion(c) ==
    /\ Holds(c)
    /\ snap[c].metrics.total_tasks < MaxTasks
    /\ \E success \in BOOLEAN, tokens \in Tokens, duration_ms \in Durations :
          /\ snap' = [snap EXCEPT ![c] =
                         RecordTaskCompletionOf(@, success, tokens, duration_ms, now)]
          /\ acall' = [acall EXCEPT ![c] = RecordCall(snap[c].id, success, tokens, duration_ms)]
          /\ recorded' = [recorded EXCEPT ![c] = Append(@, duration_ms)]
    /\ apc' = AfterMethod(c)
    /\ UNCHANGED <<agents, now>>
    /\ UNCHANGED <<wfvars, roles, rpc, rreq, rres, intvars, relvars>>

-----------------------------------------------------------------------------
(* Agents in the store: struct AgentRow and the commands of commands/agents.rs *)

\* serde_json::to_string(&status) of an AgentStatus (rename_all = "kebab-case")
AgentStatusJson ==
    [Idle |-> "\"idle\"", Initializing |-> "\"initializing\"", Ready |-> "\"ready\"",
     Running |-> "\"running\"", WaitingForInput |-> "\"waiting-for-input\"",
     WaitingForApproval |-> "\"waiting-for-approval\"", Paused |-> "\"paused\"",
     Completed |-> "\"completed\"", Failed |-> "\"failed\"",
     Cancelled |-> "\"cancelled\""]

\* serde_json::from_str(&row.status) of a string that to_string wrote
AgentStatusFromJson(json) == CHOOSE status \in AgentStatuses : AgentStatusJson[status] = json

\* serde_json::to_string(&agent.metrics) (rename_all = "camelCase"), and from_str of it
MetricsJson(metrics) ==
    [totalTasks |-> metrics.total_tasks, completedTasks |-> metrics.completed_tasks,
     failedTasks |-> metrics.failed_tasks, totalTokens |-> metrics.total_tokens,
     avgResponseTimeMs |-> metrics.avg_response_time_ms,
     uptimeSeconds |-> metrics.uptime_seconds, lastActive |-> metrics.last_active]
MetricsFromJson(json) ==
    [total_tasks |-> json.totalTasks, completed_tasks |-> json.completedTasks,
     failed_tasks |-> json.failedTasks, total_tokens |-> json.totalTokens,
     avg_response_time_ms |-> json.avgResponseTimeMs,
     uptime_seconds |-> json.uptimeSeconds, last_active |-> json.lastActive]

\* impl From<EnhancedAgent> for AgentRow: the columns of the row, the id being its key
AgentRowFrom(agent) ==
    [name |-> agent.name, status |-> AgentStatusJson[agent.status],
     metrics_json |-> MetricsJson(agent.metrics),
     created_at |-> agent.created_at, updated_at |-> agent.updated_at]

\* impl TryFrom<AgentRow> for EnhancedAgent
AgentFromRow(id, row) ==
    [id |-> id, name |-> row.name, status |-> AgentStatusFromJson(row.status),
     metrics |-> MetricsFromJson(row.metrics_json),
     created_at |-> row.created_at, updated_at |-> row.updated_at]

\* a mutant: the UPDATE is refused when the row changed since the snapshot was read
UpdateAgentRowIfUnchanged(store, id, row, t) ==
    [k \in DOMAIN store |->
        IF k = id /\ store[k].updated_at = row.updated_at
        THEN [row EXCEPT !.created_at = store[k].created_at, !.updated_at = ToRfc3339(t)]
        ELSE store[k]]

\* UPDATE agents SET name = ?, .., status = ?, .., metrics_json = ?, ..,
\* updated_at = ? WHERE id = ?
UpdateAgentRow(store, id, row, t) ==
    [k \in DOMAIN store |->
        IF k = id
        THEN [row EXCEPT !.created_at = store[k].created_at, !.updated_at = ToRfc3339(t)]
        ELSE store[k]]

\* a mutant: the command writes the status without its JSON quotes
UpdateAgentStatusRowUnquoted(store, id, status, t) ==
    [k \in DOMAIN store |->
        IF k = id
        THEN [store[k] EXCEPT !.status = status, !.updated_at = ToRfc3339(t)]
        ELSE store[k]]

\* UPDATE agents SET status = ?, updated_at = ? WHERE id = ?
UpdateAgentStatusRow(store, id, status, t) ==
    [k \in DOMAIN store |->
        IF k = id
        THEN [store[k] EXCEPT !.status = AgentStatusJson[status],
                              !.updated_at = ToRfc3339(t)]
        ELSE store[k]]

\* get_agent(id) by a caller that holds nothing: Some(agent) of the row, or None
GetAgent(c) ==
    /\ apc[c] = "idle"
    /\ \E id \in AgentIds :
          /\ acall' = [acall EXCEPT ![c] = StatusCall("get_agent", id, "")]
          /\ IF id \in DOMAIN agents
             THEN /\ snap' = [snap EXCEPT ![c] = AgentFromRow(id, agents[id])]
                  /\ apc' = [apc EXCEPT ![c] = "loaded"]
             ELSE UNCHANGED <<snap, apc>>
    /\ UNCHANGED <<agents, recorded, now>>
    /\ UNCHANGED <<wfvars, roles, rpc, rreq, rres, intvars, relvars>>

\* update_agent(agent) by a caller that changed the agent it loaded: the UPDATE, Ok(agent)
UpdateAgent(c) ==
    /\ apc[c] = "changed"
    /\ agents' = UpdateAgentRow(agents, snap[c].id, AgentRowFrom(snap[c]), now)
    /\ apc' = [apc EXCEPT ![c] = "written"]
    /\ acall' = [acall EXCEPT ![c] = StatusCall("update_agent", snap[c].id, "")]
    /\ UNCHANGED <<snap, recorded, now>>
    /\ UNCHANGED <<wfvars, roles, rpc, rreq, rres, intvars, relvars>>

\* the ids update_agent_status is given: the stored one and one that has no row
StatusIds == AgentIds \cup {"a0"}

\* update_agent_status(id, status) by a caller that holds nothing: the UPDATE, Ok(())
UpdateAgentStatus(c) ==
    /\ apc[c] = "idle"
    /\ \E id \in StatusIds, status \in AgentStatuses :
          /\ agents' = UpdateAgentStatusRow(agents, id, status, now)
          /\ acall' = [acall EXCEPT ![c] = StatusCall("update_agent_status", id, status)]
    /\ UNCHANGED <<snap, apc, recorded, now>>
    /\ UNCHANGED <<wfvars, roles, rpc, rreq, rres, intvars, relvars>>

-----------------------------------------------------------------------------
(* Interactions in the store: struct InteractionRow and update_interaction_status *)

\* serde_json::to_string(&status) of an InteractionStatus (rename_all = "kebab-case")
InteractionStatusJson ==
    [Pending |-> "\"pending\"", InProgress |-> "\"in-progress\"",
     Completed |-> "\"completed\"", Failed |-> "\"failed\"",
     Cancelled |-> "\"cancelled\""]

\* serde_json::from_str(&row.status) of a string that to_string wrote
InteractionStatusFromJson(json) ==
    CHOOSE status \in InteractionStatuses : InteractionStatusJson[status] = json

\* Option<i64>, and (d as i64) of the u64 d inside an Option: the i64 with the same
\* 64 bits, which is d - 2^64 when d >= 2^63
NoI64 == [some |-> FALSE, val |-> 0]
MapAsI64(duration_ms) ==
    IF duration_ms.some THEN [some |-> TRUE, val |-> duration_ms.val.plus] ELSE NoI64

\* (d as u64) of the i64 d inside an Option
MapAsU64(duration_ms) ==
    IF duration_ms.some THEN SomeU64(AsU64(duration_ms.val)) ELSE NoU64

\* impl From<AgentInteraction> for InteractionRow: the columns, the id being the key
InteractionRowFrom(self) ==
    [workflow_id |-> self.workflow_id, status |-> InteractionStatusJson[self.status],
     priority |-> self.priority,
     content_json |-> self.message, duration_ms |-> MapAsI64(self.duration_ms),
     created_at |-> self.created_at, completed_at |-> self.completed_at]

\* impl TryFrom<InteractionRow> for AgentInteraction
InteractionFromRow(id, row) ==
    [id |-> id, status |-> InteractionStatusFromJson(row.status),
     workflow_id |-> row.workflow_id, priority |-> row.priority,
     message |-> row.content_json,
     duration_ms |-> MapAsU64(row.duration_ms),
     created_at |-> row.created_at, completed_at |-> row.completed_at]

\* a mutant: completed_at is written only when the target is terminal
UpdateInteractionStatusRowKeeping(store, id, status, t) ==
    [k \in DOMAIN store |->
        IF k = id
        THEN [store[k] EXCEPT
                 !.status = InteractionStatusJson[status],
                 !.completed_at = IF status \in {"Completed", "Failed", "Cancelled"}
                                  THEN SomeString(ToRfc3339(t)) ELSE @]
        ELSE store[k]]

\* a mutant: a row that leaves the terminal statuses loses its duration
UpdateInteractionStatusRowClearing(store, id, status, t) ==
    [k \in DOMAIN store |->
        IF k = id
        THEN [store[k] EXCEPT
                 !.status = InteractionStatusJson[status],
                 !.completed_at = IF status \in {"Completed", "Failed", "Cancelled"}
                                  THEN SomeString(ToRfc3339(t)) ELSE NoString,
                 !.duration_ms = IF status \in {"Completed", "Failed", "Cancelled"}
                                 THEN @ ELSE NoI64]
        ELSE store[k]]

\* completed_at = if matches!(status, Completed | Failed | Cancelled) { Some(now) }
\* else { None }; UPDATE interactions SET status = ?, completed_at = ? WHERE id = ?
UpdateInteractionStatusRow(store, id, status, t) ==
    [k \in DOMAIN store |->
        IF k = id
        THEN [store[k] EXCEPT
                 !.status = InteractionStatusJson[status],
                 !.completed_at = IF status \in {"Completed", "Failed", "Cancelled"}
                                  THEN SomeString(ToRfc3339(t)) ELSE NoString]
        ELSE store[k]]

\* the ids update_interaction_status is given: the stored one and one with no row
StoredIds == InteractionIds \cup {"i0"}

\* update_interaction_status(id, status): the UPDATE, then Ok(())
UpdateInteractionStatus ==
    /\ \E id \in StoredIds, status \in InteractionStatuses :
          /\ interactions' = UpdateInteractionStatusRow(interactions, id, status, now)
          /\ icall' = CalledOn("update_interaction_status", id, status)
    /\ UNCHANGED <<interaction, stats, now>>
    /\ UNCHANGED <<wfvars, roles, rpc, rreq, rres, agentvars, relvars>>

-----------------------------------------------------------------------------
(* Relationships: enum RelationshipType, struct AgentRelationship *)

RelationshipTypes ==
    {"Supervises", "Collaborates", "Delegates", "Reviews", "InformsTo",
     "RequestsFrom", "Blocks", "Custom"}

\* RelationshipType::default_color
DefaultColor(relationship_type) ==
    CASE relationship_type = "Supervises" -> "#8b5cf6"
      [] relationship_type = "Collaborates" -> "#22c55e"
      [] relationship_type = "Delegates" -> "#3b82f6"
      [] relationship_type = "Reviews" -> "#f59e0b"
      [] relationship_type = "InformsTo" -> "#6b7280"
      [] relationship_type = "RequestsFrom" -> "#14b8a6"
      [] relationship_type = "Blocks" -> "#ef4444"
      [] relationship_type = "Custom" -> "#64748b"

\* Option<String> of a color
NoColor == [some |-> FALSE, str |-> ""]
SomeColor(s) == [some |-> TRUE, str |-> s]

\* AgentRelationship::new(id, .., relationship_type) with RelationshipMetadata::default();
\* label stands for the fields of the metadata other than color
NewAgentRelationship(id, relationship_type, t) ==
    [id |-> id, relationship_type |-> relationship_type,
     metadata |-> [label |-> "", color |-> NoColor],
     created_at |-> ToRfc3339(t), updated_at |-> ToRfc3339(t)]

NoRelationship == NewAgentRelationship("", "Custom", 0)

\* a mutant: the default color of the type takes precedence over the override
EffectiveColorOfType(self) == DefaultColor(self.relationship_type)

\* AgentRelationship::effective_color(&self)
EffectiveColorOf(self) ==
    IF self.metadata.color.some
    THEN self.metadata.color.str
    ELSE DefaultColor(self.relationship_type)

\* override colors a caller submits: one no type has, the default of Supervises,
\* and the empty string
OverrideColors == {"#000000", "#8b5cf6", ""}

\* the relationships a caller holds after deserialising one
RelationshipInputs ==
    [id : {"e1"}, relationship_type : RelationshipTypes,
     metadata : [label : {"l1"}, color : {NoColor} \cup {SomeColor(s) : s \in OverrideColors}],
     created_at : {ToRfc3339(0)}, updated_at : {ToRfc3339(0)}]

\* a caller makes a new relationship
NewRelationship ==
    /\ \E relationship_type \in RelationshipTypes :
          relationship' = NewAgentRelationship("e1", relationship_type, now)
    /\ colors' = <<>>
    /\ UNCHANGED now
    /\ UNCHANGED <<wfvars, roles, rpc, rreq, rres, intvars, agentvars>>

\* a caller calls effective_color() on its relationship
EffectiveColor ==
    /\ Len(colors) < MaxCalls
    /\ colors' = Append(colors, EffectiveColorOf(relationship))
    /\ UNCHANGED <<relationship, now>>
    /\ UNCHANGED <<wfvars, roles, rpc, rreq, rres, intvars, agentvars>>

-----------------------------------------------------------------------------
(* Interactions in the store: create_interaction and get_interaction_stats *)

\* INSERT INTO interactions (..) VALUES (..)
InsertInteraction(store, id, row) ==
    [k \in DOMAIN store \cup {id} |-> IF k = id THEN row ELSE store[k]]

\* create_interaction(interaction) with the interaction the caller holds: the
\* INSERT, then Ok(interaction); an INSERT of an id that has a row fails
CreateInteraction ==
    /\ interaction.id \in InteractionIds
    /\ IF InsertFails(interactions, interaction.id)
       THEN /\ interactions' = interactions
            /\ icall' = [CalledOn("create_interaction", interaction.id,
                                  interaction.status) EXCEPT !.ok = FALSE]
       ELSE /\ interactions' = InsertInteraction(interactions, interaction.id,
                                                 InteractionRowFrom(interaction))
            /\ icall' = CalledOn("create_interaction", interaction.id,
                                 interaction.status)
    /\ UNCHANGED <<interaction, stats, now>>
    /\ UNCHANGED <<wfvars, roles, rpc, rreq, rres, agentvars, relvars>>

\* the rows the queries of get_interaction_stats select: WHERE workflow_id = ?
\* when a workflow id is given, all rows otherwise
SelectedRows(store, workflow_id) ==
    {id \in DOMAIN store : workflow_id.some => store[id].workflow_id = workflow_id.str}

\* SELECT COUNT(*) FROM interactions WHERE .. status = '"completed"' (or '"failed"')
CountStatus(store, workflow_id, status) ==
    Cardinality({id \in SelectedRows(store, workflow_id) : store[id].status = status})

\* the workflow ids get_interaction_stats is given: the ones of the stored
\* interactions
StatsWorkflowIds == WorkflowIds \cup {"w2"}

\* get_interaction_stats(workflow_id), its first query: SELECT COUNT(*) of the
\* selected rows
StatsTotal ==
    /\ stats.pc \in {"idle", "returned"}
    /\ \E workflow_id \in {NoWorkflow} \cup {SomeWorkflow(w) : w \in StatsWorkflowIds} :
          stats' = [NoStats EXCEPT
                       !.pc = "completed", !.workflow_id = workflow_id,
                       !.total = Cardinality(SelectedRows(interactions, workflow_id))]
    /\ UNCHANGED <<interaction, interactions, icall, now>>
    /\ UNCHANGED <<wfvars, roles, rpc, rreq, rres, agentvars, relvars>>

\* its second query: the count of the selected rows with status = '"completed"'
StatsCompleted ==
    /\ stats.pc = "completed"
    /\ stats' = [stats EXCEPT
                    !.pc = "failed",
                    !.completed = CountStatus(interactions, stats.workflow_id,
                                              "\"completed\"")]
    /\ UNCHANGED <<interaction, interactions, icall, now>>
    /\ UNCHANGED <<wfvars, roles, rpc, rreq, rres, agentvars, relvars>>

\* its third query: the count of the selected rows with status = '"failed"'; then
\* the AVG(duration_ms) query, whose value is not modelled, and Ok(json) with
\* "pending": total - completed - failed
StatsFailed ==
    /\ stats.pc = "failed"
    /\ LET failed == CountStatus(interactions, stats.workflow_id, "\"failed\"")
       IN  stats' = [stats EXCEPT
                        !.pc = "returned", !.failed = failed,
                        !.pending = stats.total - stats.completed - failed]
    /\ UNCHANGED <<interaction, interactions, icall, now>>
    /\ UNCHANGED <<wfvars, roles, rpc, rreq, rres, agentvars, relvars>>

-----------------------------------------------------------------------------
(* Specifications of run_workflow *)

InitRoles ==
    /\ roles = [id \in {} |-> NoRole]
    /\ rpc = [c \in Cmds |-> "idle"]
    /\ rreq = [c \in Cmds |-> NoRequest]
    /\ rres = [c \in Cmds |-> NoResult]
    /\ now = 1

InitInteractions ==
    /\ interaction = NoInteraction
    /\ interactions = [id \in {} |-> NoInteraction]
    /\ icall = NoCall
    /\ stats = NoStats

NoAgent == NewEnhancedAgent("", "", 0)

InitAgents ==
    /\ agents = [id \in {} |-> NoAgent]
    /\ snap = [c \in Callers |-> NoAgent]
    /\ apc = [c \in Callers |-> "idle"]
    /\ acall = [c \in Callers |-> NoAgentCall]
    /\ recorded = [c \in Callers |-> <<>>]

InitRelationships ==
    /\ relationship = NoRelationship
    /\ colors = <<>>

InitEntities == InitInteractions /\ InitAgents /\ InitRelationships

InitRuns ==
    /\ pc = [r \in Runs |-> "invoked"]
    /\ adj_list = [r \in Runs |-> <<>>]
    /\ node_map = [r \in Runs |-> {}]
    /\ queue = [r \in Runs |-> <<>>]
    /\ visited = [r \in Runs |-> {}]
    /\ result = [r \in Runs |-> Running]
    /\ emits = [r \in Runs |-> <<>>]
    /\ window = <<>>

\* one invocation
Init ==
    /\ graph_state_json \in Inputs
    /\ InitRuns
    /\ InitRoles
    /\ InitEntities

Next == RunStep(1)

Spec == Init /\ [][Next]_vars

\* the task of an invocation is polled until it returns
FairSpec == Spec /\ WF_vars(Next)

\* two invocations from the same window, given the same graph description; the
\* async runtime runs them on its worker threads
InitConc ==
    /\ graph_state_json \in ConcInputs
    /\ InitRuns
    /\ InitRoles
    /\ InitEntities

NextConc == \E r \in Runs : RunStep(r)

SpecConc == InitConc /\ [][NextConc]_vars

-----------------------------------------------------------------------------
(* Specification of the role commands: the commands in flight take their
   queries in any order *)

InitRoleCommands ==
    /\ graph_state_json = Malformed
    /\ InitRuns
    /\ InitRoles
    /\ InitEntities

NextRoles ==
    \/ \E c \in Cmds : CreateRole(c)
    \/ \E c \in Cmds : UpdateRoleCheck(c)
    \/ \E c \in Cmds : UpdateRoleWrite(c)
    \/ \E c \in Cmds : DeleteRoleCheck(c)
    \/ \E c \in Cmds : DeleteRoleWrite(c)
    \/ Tick

SpecRoles == InitRoleCommands /\ [][NextRoles]_vars

-----------------------------------------------------------------------------
(* Specification of the methods of AgentInteraction: a caller holds an
   interaction and calls its methods while time passes *)

InitInteraction ==
    /\ graph_state_json = Malformed
    /\ InitRuns
    /\ InitRoles
    /\ InitAgents
    /\ InitRelationships
    /\ interaction \in InteractionInputs
    /\ interactions = [id \in {} |-> NoInteraction]
    /\ icall = NoCall
    /\ stats = NoStats

NextInteraction ==
    \/ NewInteraction
    \/ CallComplete
    \/ CallFail
    \/ Tick

SpecInteraction == InitInteraction /\ [][NextInteraction]_vars

-----------------------------------------------------------------------------
(* Specification of the metrics of an agent: a caller makes an agent with new
   and reports its tasks while time passes *)

InitAgent ==
    /\ graph_state_json = Malformed
    /\ InitRuns
    /\ InitRoles
    /\ InitInteractions
    /\ InitRelationships
    /\ agents = [id \in {} |-> NoAgent]
    /\ snap = [c \in Callers |-> IF c = 1 THEN NewEnhancedAgent("a1", "n1", now) ELSE NoAgent]
    /\ apc = [c \in Callers |-> IF c = 1 THEN "held" ELSE "idle"]
    /\ acall = [c \in Callers |-> NoAgentCall]
    /\ recorded = [c \in Callers |-> <<>>]

NextAgentMetrics ==
    \/ RecordTaskCompletion(1)
    \/ Tick

SpecAgentMetrics == InitAgent /\ [][NextAgentMetrics]_vars

-----------------------------------------------------------------------------
(* Specification of the status of an agent: the agent is stored, one caller
   holds it and calls set_status, another calls update_agent_status *)

InitAgentStatus ==
    /\ graph_state_json = Malformed
    /\ InitRuns
    /\ InitRoles
    /\ InitInteractions
    /\ InitRelationships
    /\ agents = [id \in AgentIds |-> AgentRowFrom(NewEnhancedAgent(id, "n1", now))]
    /\ snap = [c \in Callers |-> IF c = 1 THEN NewEnhancedAgent("a1", "n1", now) ELSE NoAgent]
    /\ apc = [c \in Callers |-> IF c = 1 THEN "held" ELSE "idle"]
    /\ acall = [c \in Callers |-> NoAgentCall]
    /\ recorded = [c \in Callers |-> <<>>]

NextAgentStatus ==
    \/ SetStatus(1)
    \/ UpdateAgentStatus(2)
    \/ Tick

SpecAgentStatus == InitAgentStatus /\ [][NextAgentStatus]_vars

-----------------------------------------------------------------------------
(* Specification of the stored agent: each caller loads the agent, changes its
   copy with one method call and stores it with update_agent, in any order *)

InitAgentStore ==
    /\ graph_state_json = Malformed
    /\ InitRuns
    /\ InitRoles
    /\ InitInteractions
    /\ InitRelationships
    /\ agents = [id \in AgentIds |-> AgentRowFrom(NewEnhancedAgent(id, "n1", now))]
    /\ snap = [c \in Callers |-> NoAgent]
    /\ apc = [c \in Callers |-> "idle"]
    /\ acall = [c \in Callers |-> NoAgentCall]
    /\ recorded = [c \in Callers |-> <<>>]

NextAgentStore ==
    \/ \E c \in Callers : GetAgent(c)
    \/ \E c \in Callers : SetStatus(c)
    \/ \E c \in Callers : RecordTaskCompletion(c)
    \/ \E c \in Callers : UpdateAgent(c)
    \/ Tick

SpecAgentStore == InitAgentStore /\ [][NextAgentStore]_vars

-----------------------------------------------------------------------------
(* Specification of the stored interaction: an interaction as a caller can submit
   it has been stored, and update_interaction_status is called on the store *)

InitInteractionStore ==
    /\ graph_state_json = Malformed
    /\ InitRuns
    /\ InitRoles
    /\ InitAgents
    /\ InitRelationships
    /\ interaction \in InteractionInputs
    /\ interactions = [id \in {interaction.id} |-> InteractionRowFrom(interaction)]
    /\ icall = NoCall
    /\ stats = NoStats

NextInteractionStore ==
    \/ UpdateInteractionStatus
    \/ Tick

SpecInteractionStore == InitInteractionStore /\ [][NextInteractionStore]_vars

-----------------------------------------------------------------------------
(* Specification of effective_color: a caller holds a relationship it deserialised
   or made and calls effective_color on it *)

InitRelationship ==
    /\ graph_state_json = Malformed
    /\ InitRuns
    /\ InitRoles
    /\ InitInteractions
    /\ InitAgents
    /\ relationship \in RelationshipInputs
    /\ colors = <<>>

NextRelationship ==
    \/ NewRelationship
    \/ EffectiveColor
    \/ Tick

SpecRelationship == InitRelationship /\ [][NextRelationship]_vars

-----------------------------------------------------------------------------
(* Specification of the life of interactions: a caller makes an interaction with
   new, calls complete and fail on it and stores it with create_interaction;
   update_interaction_status is called on the store *)

InitInteractionLife ==
    /\ graph_state_json = Malformed
    /\ InitRuns
    /\ InitRoles
    /\ InitAgents
    /\ InitRelationships
    /\ \E id \in InteractionIds, workflow_id \in WorkflowIds :
          interaction = NewAgentInteraction(id, workflow_id, "m", now)
    /\ interactions = [id \in {} |-> NoInteraction]
    /\ icall = Called("new", "", "")
    /\ stats = NoStats

NextInteractionLife ==
    \/ NewInteraction
    \/ CallComplete
    \/ CallFail
    \/ CreateInteraction
    \/ UpdateInteractionStatus
    \/ Tick

SpecInteractionLife == InitInteractionLife /\ [][NextInteractionLife]_vars

-----------------------------------------------------------------------------
(* Specification of the commands given ids: a role and an agent with other ids
   are stored; one caller calls the role commands, one after the other, with an
   id that has a row at some times and none at others, another calls
   update_agent_status with ids that have no row *)

InitStoredRows ==
    /\ graph_state_json = Malformed
    /\ InitRuns
    /\ InitInteractions
    /\ InitRelationships
    /\ \E role \in [id : {"r0"}, name : {"n1"}, is_built_in : BOOLEAN,
                    created_at : {0}, updated_at : {0}] :
          roles = [id \in {role.id} |-> RoleRowFrom(role)]
    /\ rpc = [c \in Cmds |-> "idle"]
    /\ rreq = [c \in Cmds |-> NoRequest]
    /\ rres = [c \in Cmds |-> NoResult]
    /\ now = 1
    /\ agents = [id \in {"a2"} |-> AgentRowFrom(NewEnhancedAgent(id, "n1", now))]
    /\ snap = [c \in Callers |-> NoAgent]
    /\ apc = [c \in Callers |-> "idle"]
    /\ acall = [c \in Callers |-> NoAgentCall]
    /\ recorded = [c \in Callers |-> <<>>]

NextStoredRows ==
    \/ CreateRole(1)
    \/ UpdateRoleCheck(1)
    \/ UpdateRoleWrite(1)
    \/ DeleteRoleCheck(1)
    \/ DeleteRoleWrite(1)
    \/ UpdateAgentStatus(2)
    \/ Tick

SpecStoredRows == InitStoredRows /\ [][NextStoredRows]_vars

-----------------------------------------------------------------------------
(* Specification of get_interaction_stats: two interactions of two workflows are
   stored with statuses update_interaction_status gave them, a caller holds a
   third as the frontend can submit it; create_interaction,
   update_interaction_status and get_interaction_stats are called, and the
   queries of a get_interaction_stats in flight and the other commands' queries
   come in any order *)

\* the interactions a caller submits here: any status, no duration, no completion time
StatsInputs ==
    {i \in InteractionInputs :
        i.duration_ms = NoU64 /\ i.created_at = Rfc3339(0) /\ i.completed_at = NoString}

InitInteractionStats ==
    /\ graph_state_json = Malformed
    /\ InitRuns
    /\ InitRoles
    /\ InitAgents
    /\ InitRelationships
    /\ interaction \in StatsInputs
    /\ \E s2 \in {"Completed", "Cancelled"}, s3 \in {"Failed", "InProgress"} :
          LET created ==
                 [id \in {"i2", "i3"} |->
                     InteractionRowFrom(NewAgentInteraction(
                         id, IF id = "i2" THEN "w1" ELSE "w2", "m", 0))]
          IN  interactions =
                 UpdateInteractionStatusRow(
                     UpdateInteractionStatusRow(created, "i2", s2, 0), "i3", s3, 0)
    /\ icall = NoCall
    /\ stats = NoStats

NextInteractionStats ==
    \/ CreateInteraction
    \/ UpdateInteractionStatus
    \/ StatsTotal
    \/ StatsCompleted
    \/ StatsFailed

SpecInteractionStats == InitInteractionStats /\ [][NextInteractionStats]_vars

-----------------------------------------------------------------------------
(* What the claims about run_workflow speak of, defined on the graph description *)

DeclaredIds == Range(Nodes)
EdgeSet == Range(Edges)

\* the edges that join two declared nodes
DeclaredEdgeSet == {e \in EdgeSet : e.source \in DeclaredIds /\ e.target \in DeclaredIds}

\* the number of nodes of the list that are the target of no edge
StartCount ==
    Cardinality({i \in DOMAIN Nodes : \A j \in DOMAIN Edges : Edges[j].target # Nodes[i]})

\* the start node, when there is exactly one
StartNode == CHOOSE n \in DeclaredIds : \A e \in EdgeSet : e.target # n

Validated == graph_state_json.ok /\ Nodes # <<>> /\ StartCount = 1

\* the ids reached from S by following edges of E forward
RECURSIVE ReachableFrom(_, _)
ReachableFrom(S, E) ==
    LET T == S \cup {e.target : e \in {x \in E : x.source \in S}}
    IN  IF T = S THEN S ELSE ReachableFrom(T, E)

\* the ids reached from S by following at most k edges of E
RECURSIVE Within(_, _, _)
Within(S, E, k) ==
    IF k = 0 THEN S
    ELSE Within(S \cup {e.target : e \in {x \in E : x.source \in S}}, E, k - 1)

\* the distance of n from the start node, in edges of E
Dist(n, E) == CHOOSE k \in 0..Cardinality(E) :
                  /\ n \in Within({StartNode}, E, k)
                  /\ \A m \in 0..(k - 1) : n \notin Within({StartNode}, E, m)

\* the events the window received from run r, in order
WindowOf(r) ==
    LET mine == SelectSeq(window, LAMBDA x : x.run = r)
    IN  [i \in 1..Len(mine) |-> mine[i].ev]

IsVisiting(ev) == ev.name = "execution-log" /\ ev.message = "[EXEC] Visiting node"
IsFinished(ev) == ev.name = "execution-finished"

\* the nodes of the Visiting events run r emitted, in order
VisitingOf(r) ==
    LET vs == SelectSeq(WindowOf(r), IsVisiting)
    IN  [i \in 1..Len(vs) |-> vs[i].node]

FinishedCount(r) == Len(SelectSeq(WindowOf(r), IsFinished))

\* run r returned and none of its emits failed
Returned(r) == pc[r] = "done" /\ result[r] # ErrEmit

NoDuplicates(s) == \A i, j \in DOMAIN s : s[i] = s[j] => i = j

-----------------------------------------------------------------------------
(* C1 *)

\* C1, as stated: a run on a graph with exactly one start node, all of whose emits
\* succeed, emits as many Visiting events as there are distinct nodes reachable
\* from the start node by following the edges of the edge list forward.
C1_VisitingCountIsEdgeReachable ==
    \A r \in Runs :
        (Validated /\ Returned(r)) =>
            Len(VisitingOf(r)) =
                Cardinality(ReachableFrom({StartNode}, EdgeSet) \cap DeclaredIds)

\* C1, amended: the Visiting events name each node once, and they name exactly the
\* declared nodes reachable from the start node along edges between declared nodes
\* (an id that no node declares is neither reported nor followed).
C1_VisitingCountIsDeclaredReachable ==
    \A r \in Runs :
        (Validated /\ Returned(r)) =>
            /\ Len(VisitingOf(r)) =
                   Cardinality(ReachableFrom({StartNode}, DeclaredEdgeSet))
            /\ NoDuplicates(VisitingOf(r))
            /\ Range(VisitingOf(r)) = ReachableFrom({StartNode}, DeclaredEdgeSet)

\* a run that finished on a graph with a cycle among its reachable nodes, a node
\* reached by two edges and an edge to an id that no node declares
C1_Witness ==
    /\ Validated /\ Returned(1) /\ result[1] = Ok
    /\ Len(VisitingOf(1)) >= 2
    /\ \E e \in EdgeSet : e.source = StartNode /\ e.target \notin DeclaredIds
    /\ \E n \in Range(VisitingOf(1)) :
          /\ n \in ReachableFrom({e.target : e \in {x \in DeclaredEdgeSet : x.source = n}},
                                 DeclaredEdgeSet)
          /\ Cardinality({j \in DOMAIN Edges : Edges[j].target = n
                                                /\ Edges[j].source \in DeclaredIds}) >= 2

-----------------------------------------------------------------------------
(* C2 *)

\* C2: for a non-empty node list with k # 1 nodes that are the target of no edge,
\* the run returns the error reporting k and has emitted nothing.
C2_ValidationReportsCount ==
    \A r \in Runs :
        (graph_state_json.ok /\ Nodes # <<>> /\ StartCount # 1
            /\ pc[r] \notin {"invoked", "setup"}) =>
            /\ pc[r] = "done"
            /\ result[r] = ErrStartNodes(StartCount)
            /\ emits[r] = <<>>
            /\ WindowOf(r) = <<>>

\* the scenario: nodes [A, B], edges A->B and B->A, rejected with Found 0
C2_Witness ==
    /\ Nodes = <<"A", "B">>
    /\ Edges = <<Edge("A", "B"), Edge("B", "A")>>
    /\ pc[1] = "done"
    /\ result[1] = ErrStartNodes(0)

-----------------------------------------------------------------------------
(* C3 *)

\* C3: a run emits execution-finished at most once and nothing after it; a run
\* that passed validation or short-circuited on an empty node list, and returned
\* with no emit failing, has emitted it exactly once.
C3_OneFinishedAndLast ==
    \A r \in Runs :
        LET w == WindowOf(r)
        IN  /\ FinishedCount(r) <= 1
            /\ \A i \in DOMAIN w : IsFinished(w[i]) => i = Len(w)
            /\ (graph_state_json.ok /\ (Nodes = <<>> \/ StartCount = 1) /\ Returned(r)) =>
                   /\ FinishedCount(r) = 1
                   /\ w[Len(w)] = Finished(TRUE)

\* a run that traversed a graph and returned
C3_Witness ==
    /\ Validated /\ Returned(1)
    /\ Len(VisitingOf(1)) >= 2
    /\ FinishedCount(1) = 1

-----------------------------------------------------------------------------
(* C4 *)

\* the position in the Visiting sequence v of the node that discovered v[i]: the
\* first visited node with an edge to it
Discoverer(v, i) ==
    CHOOSE d \in DOMAIN v :
        /\ \E e \in EdgeSet : e.source = v[d] /\ e.target = v[i]
        /\ \A c \in 1..(d - 1) : ~ \E e \in EdgeSet : e.source = v[c] /\ e.target = v[i]

\* the position in the edge list of the first edge from s to t
FirstEdge(s, t) ==
    CHOOSE j \in DOMAIN Edges :
        /\ Edges[j] = Edge(s, t)
        /\ \A c \in 1..(j - 1) : Edges[c] # Edge(s, t)

\* the Visiting sequence v is in breadth-first discovery order
DiscoveryOrder(v) ==
    /\ v # <<>> => v[1] = StartNode
    /\ \A i \in 2..Len(v) :
          /\ \E d \in 1..(i - 1) : \E e \in EdgeSet : e.source = v[d] /\ e.target = v[i]
          /\ Discoverer(v, i) < i
    /\ \A i, j \in 2..Len(v) :
          i < j =>
              \/ Discoverer(v, i) < Discoverer(v, j)
              \/ /\ Discoverer(v, i) = Discoverer(v, j)
                 /\ FirstEdge(v[Discoverer(v, i)], v[i]) < FirstEdge(v[Discoverer(v, j)], v[j])

\* the scenario: nodes [A, B], edge A->B
ScenarioAB ==
    \A r \in Runs :
        (Nodes = <<"A", "B">> /\ Edges = <<Edge("A", "B")>> /\ Returned(r)) =>
            WindowOf(r) = <<LogVisiting("A"), LogVisiting("B"), LogComplete, Finished(TRUE)>>

\* no node is visited after a node that is farther from the start node along E
NearerFirst(v, E) ==
    \A i, j \in DOMAIN v : i < j => Dist(v[i], E) <= Dist(v[j], E)

\* C4, as stated: the Visiting events come in breadth-first discovery order, the
\* successors of a node in the order of their edges, so that no node is visited
\* after a node that is farther from the start node, counted in edges of the
\* edge list; the scenario [A, B], A->B yields its four events.
C4_BreadthFirstByEdgeCount ==
    \A r \in Runs :
        Validated =>
            /\ DiscoveryOrder(VisitingOf(r))
            /\ NearerFirst(VisitingOf(r), EdgeSet)
            /\ ScenarioAB

\* C4, amended: the same, the distance counted along edges between declared nodes.
C4_BreadthFirstByDeclaredEdgeCount ==
    \A r \in Runs :
        Validated =>
            /\ DiscoveryOrder(VisitingOf(r))
            /\ NearerFirst(VisitingOf(r), DeclaredEdgeSet)
            /\ ScenarioAB

\* a run that visited two successors of one node and then a node two edges away
C4_Witness ==
    /\ Validated /\ Returned(1) /\ result[1] = Ok
    /\ LET v == VisitingOf(1)
       IN  /\ Len(v) >= 4
           /\ Discoverer(v, 2) = 1 /\ Discoverer(v, 3) = 1
           /\ \E i \in DOMAIN v : Dist(v[i], DeclaredEdgeSet) = 2

-----------------------------------------------------------------------------
(* C5 *)

\* C5: a run that passed validation leaves the traversal loop and returns; if none
\* of its emits failed it has emitted execution-finished and returned Ok.
C5_TraversalTerminates ==
    /\ \A r \in Runs : (pc[r] = "traverse") ~> (pc[r] = "done")
    /\ [](\A r \in Runs :
             (Validated /\ Returned(r)) =>
                 /\ result[r] = Ok
                 /\ FinishedCount(r) = 1)

\* a run that returned Ok on the graph with a cycle, a self-loop and a duplicate edge
C5_Witness ==
    /\ graph_state_json = DiamondGraph
    /\ pc[1] = "done"
    /\ result[1] = Ok
    /\ Range(VisitingOf(1)) = {"A", "B", "C", "D"}

-----------------------------------------------------------------------------
(* C6 *)

\* the events of run r before the one that failed
Delivered(r) == SubSeq(emits[r], 1, Len(emits[r]) - 1)

\* C6: the step in which an emit of a run fails ends the run with the error; the
\* window has received every event the run emitted before and not the failed one;
\* after the failure the run emits nothing more, in particular no
\* execution-finished and not the failed event again.
C6_EmitFailureAborts ==
    /\ [](\A r \in Runs :
             IF result[r] = ErrEmit
             THEN /\ pc[r] = "done"
                  /\ emits[r] # <<>>
                  /\ WindowOf(r) = Delivered(r)
                  /\ FinishedCount(r) = 0
             ELSE WindowOf(r) = emits[r])
    /\ [][\A r \in Runs :
             /\ (emits'[r] # emits[r] /\ WindowOf(r)' = WindowOf(r)) =>
                    (pc'[r] = "done" /\ result'[r] = ErrEmit)
             /\ result[r] = ErrEmit =>
                    (emits'[r] = emits[r] /\ WindowOf(r)' = WindowOf(r)
                        /\ result'[r] = ErrEmit /\ pc'[r] = "done")]_vars

\* a run whose emit failed after it had visited a node
C6_Witness ==
    /\ result[1] = ErrEmit
    /\ Len(VisitingOf(1)) >= 1
    /\ emits[1][Len(emits[1])] \in {LogVisiting(n) : n \in DeclaredIds}

-----------------------------------------------------------------------------
(* C7 *)

\* C7: on an empty node list, whatever the edges, the run neither validates nor
\* traverses; if no emit fails it returns Ok having emitted exactly the
\* informational log and then execution-finished with success = true.
C7_EmptyNodeList ==
    \A r \in Runs :
        (graph_state_json.ok /\ Nodes = <<>>) =>
            /\ pc[r] \in {"invoked", "empty_log", "empty_finished", "done"}
            /\ adj_list[r] = <<>> /\ node_map[r] = {} /\ queue[r] = <<>> /\ visited[r] = {}
            /\ VisitingOf(r) = <<>>
            /\ Returned(r) =>
                   /\ result[r] = Ok
                   /\ WindowOf(r) = <<LogEmpty, Finished(TRUE)>>

\* a run that returned on an empty node list with a non-empty edge list
C7_Witness ==
    /\ graph_state_json.ok /\ Nodes = <<>> /\ Edges # <<>>
    /\ Returned(1)
    /\ Len(WindowOf(1)) = 2

-----------------------------------------------------------------------------
(* C8 *)

\* C8: on the window two concurrent runs emit to, the events of one run are
\* contiguous: no event of the other run lies between two of them.
C8_RunsDoNotInterleave ==
    \A i, j, k \in DOMAIN window :
        (i < j /\ j < k /\ window[i].run = window[k].run) => window[j].run = window[i].run

-----------------------------------------------------------------------------
(* C9 *)

IsPrefix(s, t) == Len(s) <= Len(t) /\ SubSeq(t, 1, Len(s)) = s

-----------------------------------------------------------------------------
(* C10 *)

\* command c takes the first step of an update_role or delete_role
StartsMutation(c) ==
    /\ Idle(c)
    /\ <<rpc[c], rreq[c], rres[c]>>' # <<rpc[c], rreq[c], rres[c]>>
    /\ rreq'[c].op \in {"update", "delete"}

\* C10: an update_role or delete_role whose role has a stored row flagged built-in
\* returns the error 'Cannot modify built-in roles' or 'Cannot delete built-in
\* roles' without making its write, and leaves every stored row as it was.
C10_BuiltInRolesRejected ==
    [][\A c \in Cmds :
          (StartsMutation(c) /\ rreq'[c].id \in DOMAIN roles
              /\ roles[rreq'[c].id].is_built_in) =>
              /\ rpc'[c] = "returned"
              /\ rres'[c] = IF rreq'[c].op = "update" THEN ErrModifyBuiltIn
                                                       ELSE ErrDeleteBuiltIn
              /\ roles' = roles]_vars

\* an update and a delete of a stored built-in role were both rejected
C10_Witness ==
    \E c, d \in Cmds :
        /\ rpc[c] = "returned" /\ rreq[c].op = "update" /\ rres[c] = ErrModifyBuiltIn
        /\ rpc[d] = "returned" /\ rreq[d].op = "delete" /\ rres[d] = ErrDeleteBuiltIn
        /\ rreq[c].id \in DOMAIN roles /\ roles[rreq[c].id].is_built_in
        /\ rreq[d].id \in DOMAIN roles /\ roles[rreq[d].id].is_built_in
        /\ rreq[c].role.name # roles[rreq[c].id].name

-----------------------------------------------------------------------------
(* C11 *)

\* C11, as stated: an update_role that is handed a role object whose is_built_in
\* is true returns the error 'Cannot modify built-in roles' without making its
\* write, and leaves every stored row as it was.
C11_SubmittedBuiltInRejected ==
    [][\A c \in Cmds :
          (StartsMutation(c) /\ rreq'[c].op = "update" /\ rreq'[c].role.is_built_in) =>
              /\ rpc'[c] = "returned"
              /\ rres'[c] = ErrModifyBuiltIn
              /\ roles' = roles]_vars

\* C11, amended: update_role decides by the is_built_in flag of the stored row and
\* never by the flag of the role object it is handed.  Handed a role whose
\* is_built_in is true, it returns 'Cannot modify built-in roles' and writes nothing
\* when the stored row of that id is flagged built-in; otherwise it goes on to its
\* UPDATE, which sets the content columns and updated_at of the row of that id (if
\* there is one), leaves is_built_in and created_at of every row as stored, and
\* returns Ok with the role it was handed.
C11_StoredFlagDecides ==
    [][\A c \in Cmds :
          /\ (StartsMutation(c) /\ rreq'[c].op = "update" /\ rreq'[c].role.is_built_in) =>
                /\ roles' = roles
                /\ IF rreq'[c].id \in DOMAIN roles /\ roles[rreq'[c].id].is_built_in
                   THEN rpc'[c] = "returned" /\ rres'[c] = ErrModifyBuiltIn
                   ELSE rpc'[c] = "update_write" /\ rres'[c] = NoResult
          /\ (rpc[c] = "update_write" /\ rpc'[c] = "returned" /\ rreq[c].role.is_built_in) =>
                /\ rres'[c] = RoleOk(rreq[c].role)
                /\ DOMAIN roles' = DOMAIN roles
                /\ \A id \in DOMAIN roles :
                      /\ roles'[id].is_built_in = roles[id].is_built_in
                      /\ roles'[id].created_at = roles[id].created_at
                      /\ IF id = rreq[c].id
                         THEN /\ roles'[id].name = rreq[c].role.name
                              /\ roles'[id].updated_at = now
                         ELSE roles'[id] = roles[id]]_vars

\* an update_role handed a role flagged built-in returned Ok, and the stored row,
\* which is not flagged built-in, carries the name it was handed
C11_Witness ==
    \E c \in Cmds :
        /\ rpc[c] = "returned" /\ rreq[c].op = "update"
        /\ rreq[c].role.is_built_in
        /\ rres[c] = RoleOk(rreq[c].role)
        /\ rreq[c].id \in DOMAIN roles
        /\ ~roles[rreq[c].id].is_built_in
        /\ roles[rreq[c].id].name = rreq[c].role.name
        /\ roles[rreq[c].id].updated_at = now
        /\ now > 1

-----------------------------------------------------------------------------
(* C12 *)

\* the u64 value u is not negative (the model keeps |u.plus| far below 2^64)
U64NonNegative(u) == u.two64 >= 1 \/ u.plus >= 0

\* C12, as stated: after complete(), whatever the status was before, the status is
\* Completed, completed_at is set, and duration_ms is set to a non-negative value.
C12_CompleteSetsDuration ==
    icall.op = "complete" =>
        /\ interaction.status = "Completed"
        /\ interaction.completed_at.some
        /\ interaction.duration_ms.some
        /\ U64NonNegative(interaction.duration_ms.val)

\* C12, amended: after complete(), whatever the status was before, the status is
\* Completed and completed_at is set; when created_at is an RFC 3339 timestamp,
\* duration_ms is set, to a u64 (so never a negative number: the difference
\* clock - created_at when created_at is not later than the clock, and 2^64 plus
\* that difference when it is later); when created_at is not an RFC 3339
\* timestamp, duration_ms is left as it was, unset if it was unset.
C12_CompleteSetsDurationIfParsed ==
    [][icall'.op = "complete" =>
          /\ interaction'.status = "Completed"
          /\ interaction'.completed_at.some
          /\ IF interaction.created_at.rfc3339
             THEN /\ interaction'.duration_ms.some
                  /\ U64NonNegative(interaction'.duration_ms.val)
                  /\ interaction'.duration_ms.val.two64 = 1 <=>
                         interaction.created_at.millis > now'
             ELSE interaction'.duration_ms = interaction.duration_ms]_vars

\* complete() was called on an interaction that was Failed, whose created_at does
\* not parse and whose duration_ms was unset: it is Completed with no duration
C12_Witness ==
    /\ icall.op = "complete"
    /\ interaction.status = "Completed"
    /\ interaction.completed_at = SomeString(Rfc3339(now))
    /\ ~interaction.created_at.rfc3339
    /\ ~interaction.duration_ms.some
    /\ FailCount(interaction) > 0

-----------------------------------------------------------------------------
(* C13 *)

\* C13: fail(reason) sets the status to Failed, stamps completed_at with the
\* current time and makes the message the previous message followed by
\* "\n\nError: " and the reason; duration_ms is as it was before the call (unset
\* if it was unset), and so is every other field of the interaction.
C13_FailFrame ==
    [][(icall'.op = "fail" /\ interaction'.message # interaction.message) =>
          /\ interaction'.status = "Failed"
          /\ interaction'.completed_at = SomeString(Rfc3339(now))
          /\ interaction'.message = interaction.message \o <<"\n\nError: ", icall'.reason>>
          /\ interaction'.duration_ms = interaction.duration_ms
          /\ DOMAIN interaction' = DOMAIN interaction
          /\ \A f \in DOMAIN interaction \ {"status", "completed_at", "message"} :
                interaction'[f] = interaction[f]]_vars

\* fail was called twice, after the clock advanced, on an interaction created in
\* the past whose duration_ms was unset: it is Failed with both reasons and no duration
C13_Witness ==
    /\ icall.op = "fail"
    /\ interaction.status = "Failed"
    /\ interaction.message = <<"m", "\n\nError: ", "e1", "\n\nError: ", "e1">>
    /\ interaction.completed_at = SomeString(Rfc3339(now))
    /\ now > 1
    /\ interaction.created_at = Rfc3339(0)
    /\ ~interaction.duration_ms.some

-----------------------------------------------------------------------------
(* C14 *)

RECURSIVE Sum(_)
Sum(ds) == IF ds = <<>> THEN 0 ELSE ds[1] + Sum(Tail(ds))

\* a <= b, for natural numbers given by their digits
LeqLimbs(a, b) ==
    \/ Len(a) < Len(b)
    \/ /\ Len(a) = Len(b)
       /\ \/ a = b
          \/ \E i \in DOMAIN a : a[i] < b[i] /\ \A j \in (i + 1)..Len(a) : a[j] = b[j]

\* the double avg is exactly the arithmetic mean of ds: avg * k = d1 + .. + dk
MeanIsExact(avg, ds) ==
    LET P == MulSmall(avg.m, Len(ds))
        S == Limbs(Sum(ds))
    IN  IF avg.e >= 0 THEN ShiftLeft(P, avg.e) = S ELSE P = ShiftLeft(S, -avg.e)

\* the double avg is the arithmetic mean of ds up to a relative error of k * 2^-51:
\* S * 2^51 <= avg * k * 2^51 + S * k  and  avg * k * 2^51 <= S * 2^51 + S * k,
\* both sides scaled by 2^-e when the exponent e of avg is negative
MeanWithinRounding(avg, ds) ==
    LET k == Len(ds)
        up == IF avg.e < 0 THEN -avg.e ELSE 0
        A == ShiftLeft(MulSmall(avg.m, k), (F64MantissaBits - 2) + avg.e + up)
        S == ShiftLeft(Limbs(Sum(ds)), (F64MantissaBits - 2) + up)
        Sk == ShiftLeft(Limbs(Sum(ds) * k), up)
    IN  LeqLimbs(S, AddLimbs(A, Sk)) /\ LeqLimbs(A, AddLimbs(S, Sk))

\* C14, as stated: after k >= 1 calls of record_task_completion on an agent made
\* with new, with durations d1..dk, total_tasks is k and avg_response_time_ms is
\* exactly (d1 + .. + dk) / k; after the first call it is d1.
C14_AverageIsExactMean ==
    \A c \in Callers :
        (apc[c] = "held" /\ recorded[c] # <<>>) =>
            /\ snap[c].metrics.total_tasks = Len(recorded[c])
            /\ MeanIsExact(snap[c].metrics.avg_response_time_ms, recorded[c])
            /\ Len(recorded[c]) = 1 =>
                   snap[c].metrics.avg_response_time_ms = F64FromInt(recorded[c][1])

\* C14, amended: after k >= 1 such calls total_tasks is k; avg_response_time_ms is
\* d1 after the first call and exactly the mean after the second; from the third
\* call on it is the mean only up to the rounding of the f64 product, sum and
\* quotient of every call, within a relative error of k * 2^-51.
C14_AverageIsRoundedMean ==
    \A c \in Callers :
        (apc[c] = "held" /\ recorded[c] # <<>>) =>
            /\ snap[c].metrics.total_tasks = Len(recorded[c])
            /\ Len(recorded[c]) = 1 =>
                   snap[c].metrics.avg_response_time_ms = F64FromInt(recorded[c][1])
            /\ Len(recorded[c]) <= 2 =>
                   MeanIsExact(snap[c].metrics.avg_response_time_ms, recorded[c])
            /\ MeanWithinRounding(snap[c].metrics.avg_response_time_ms, recorded[c])

\* three calls with durations 0, 0, 1: the average is the double nearest to 1/3,
\* which is not 1/3
C14_Witness ==
    /\ recorded[1] = <<0, 0, 1>>
    /\ snap[1].metrics.total_tasks = 3
    /\ snap[1].metrics.avg_response_time_ms = F64DivInt(F64FromInt(1), 3)
    /\ ~MeanIsExact(snap[1].metrics.avg_response_time_ms, recorded[1])

-----------------------------------------------------------------------------
\* C15: the status-set operations accept every target status from every current
\* status, the terminal ones included. In every state, whatever status the held
\* agent and the stored agent have, set_status and update_agent_status applied
\* with any of the 10 targets leave the status equal to the target; and after every
\* call that was made the status read back is the target of the call.
C15_AnyTargetAccepted ==
    /\ \A target \in AgentStatuses :
          /\ \A t2 \in {now, now + 1} :
                SetStatusOf(snap[1], target, now, t2).status = target
          /\ \A id \in DOMAIN agents :
                AgentFromRow(id, UpdateAgentStatusRow(agents, id, target, now)[id]).status
                    = target
    /\ acall[1].op = "set_status" => snap[1].status = acall[1].status
    /\ (acall[2].op = "update_agent_status" /\ acall[2].id \in DOMAIN agents)
          => AgentFromRow(acall[2].id, agents[acall[2].id]).status = acall[2].status

\* set_status has brought the held agent to Completed and update_agent_status the
\* stored one to Failed: from these terminal statuses both accept Running
C15_Witness ==
    /\ acall[1] = StatusCall("set_status", "a1", "Completed")
    /\ snap[1].status = "Completed"
    /\ acall[2] = StatusCall("update_agent_status", "a1", "Failed")
    /\ agents["a1"].status = AgentStatusJson["Failed"]
    /\ SetStatusOf(snap[1], "Running", now, now).status = "Running"
    /\ UpdateAgentStatusRow(agents, "a1", "Running", now)["a1"].status
          = AgentStatusJson["Running"]

-----------------------------------------------------------------------------
\* C16: every set_status call stamps updated_at with the time its first reading of
\* the clock gives, and a call whose target is Running, WaitingForInput,
\* WaitingForApproval or Paused also stamps metrics.last_active, with the time its
\* second reading of the clock gives.
C16_SetStatusStamps ==
    [][(snap'[1] # snap[1] \/ acall'[1] # acall[1]) =>
          /\ acall'[1].op = "set_status"
          /\ snap'[1].updated_at = ToRfc3339(now)
          /\ acall'[1].status \in {"Running", "WaitingForInput",
                                   "WaitingForApproval", "Paused"}
                => snap'[1].metrics.last_active = SomeString(ToRfc3339(now'))]_vars

\* set_status(Paused) was called at time 1 and the clock moved on before the second
\* reading: updated_at is 1 and last_active is 2
C16_Witness ==
    /\ acall[1] = StatusCall("set_status", "a1", "Paused")
    /\ snap[1].status = "Paused"
    /\ snap[1].updated_at = ToRfc3339(1)
    /\ snap[1].metrics.last_active = SomeString(ToRfc3339(2))

-----------------------------------------------------------------------------
\* C17: update_interaction_status(id, s) on a stored interaction accepts every
\* target status s from every stored status and sets the stored status to s; the
\* stored completed_at is the time of the call when s is Completed, Failed or
\* Cancelled, and is null after the call otherwise. (The step of a call is the one
\* that leaves the call in icall and does not move the clock.)
C17_StatusAndCompletedAt ==
    [][\A id \in DOMAIN interactions, s \in InteractionStatuses :
          (icall' = CalledOn("update_interaction_status", id, s) /\ now' = now) =>
             /\ id \in DOMAIN interactions'
             /\ icall'.ok
             /\ InteractionFromRow(id, interactions'[id]).status = s
             /\ interactions'[id].completed_at =
                   IF s \in {"Completed", "Failed", "Cancelled"}
                   THEN SomeString(ToRfc3339(now)) ELSE NoString]_vars

\* update_interaction_status(i1, Failed) was called at time 2 on a stored
\* interaction: the stored status is Failed and completed_at is time 2
C17_Witness ==
    /\ icall = CalledOn("update_interaction_status", "i1", "Failed")
    /\ InteractionFromRow("i1", interactions["i1"]).status = "Failed"
    /\ interactions["i1"].completed_at = SomeString(ToRfc3339(2))

-----------------------------------------------------------------------------
\* C18 as stated: when a caller that loaded the stored agent and changed its copy
\* writes it back with update_agent, the stored agent afterwards equals the
\* snapshot written.
C18_StoredEqualsSnapshot ==
    [][\A c \in Callers :
          (apc[c] = "changed" /\ apc'[c] = "written") =>
             AgentFromRow(snap[c].id, agents'[snap[c].id]) = snap[c]]_vars

\* C18: two callers load the same stored agent, change their copies and write them
\* back in any order. Every write succeeds, whatever was written since the copy
\* was loaded, and leaves the stored agent equal to the snapshot written in every
\* field but updated_at, which is the time of the write: the last write wins and
\* nothing of the earlier writer's change remains.
C18_LastWriteWins ==
    [][\A c \in Callers :
          (apc[c] = "changed" /\ apc'[c] = "written") =>
             /\ acall'[c].op = "update_agent"
             /\ AgentFromRow(snap[c].id, agents'[snap[c].id])
                   = [snap[c] EXCEPT !.updated_at = ToRfc3339(now)]]_vars

\* both callers have written: caller 1 had set the status to Running at time 1,
\* caller 2 had recorded a task at time 1 and wrote last, at time 3; the stored
\* agent is caller 2's snapshot, Idle with one task, with updated_at 3
C18_Witness ==
    /\ apc = [c \in Callers |-> "written"]
    /\ snap[1].status = "Running"
    /\ snap[1].updated_at = ToRfc3339(1)
    /\ snap[2].status = "Idle"
    /\ snap[2].metrics.total_tasks = 1
    /\ snap[2].updated_at = ToRfc3339(1)
    /\ agents["a1"].updated_at = ToRfc3339(3)
    /\ AgentFromRow("a1", agents["a1"]) = [snap[2] EXCEPT !.updated_at = ToRfc3339(3)]

-----------------------------------------------------------------------------
\* C19: a call of effective_color() returns the override metadata.color when the
\* relationship has one and the default color of its type otherwise; the call
\* changes no field of the relationship, and all the calls made on the same
\* relationship have returned the same color.
C19_EffectiveColor ==
    [][Len(colors') > Len(colors) =>
          /\ relationship' = relationship
          /\ \A i \in DOMAIN colors' :
                colors'[i] = IF relationship.metadata.color.some
                             THEN relationship.metadata.color.str
                             ELSE DefaultColor(relationship.relationship_type)]_vars

\* effective_color() was called twice on a Blocks relationship whose override is
\* the default color of Supervises, and returned the override both times
C19_Witness ==
    /\ relationship.relationship_type = "Blocks"
    /\ relationship.metadata.color = SomeColor("#8b5cf6")
    /\ colors = <<"#8b5cf6", "#8b5cf6">>

-----------------------------------------------------------------------------
\* C20: in every state of the traversal no node id occurs twice in the queue and
\* every queued id is in the visited set; an id that is dequeued is in the visited
\* set, no id ever leaves the visited set, and an id is enqueued only when it is
\* not yet in the visited set. So every id that is queued or was dequeued is
\* visited, and an id that was dequeued is never enqueued again, whatever edges,
\* paths or cycles lead to it.
C20_EnqueuedOnce ==
    [][\A r \in Runs :
          /\ NoDuplicates(queue'[r])
          /\ Range(queue'[r]) \subseteq visited'[r]
          /\ (pc[r] = "traverse" /\ pc'[r] = "traverse") =>
                /\ visited[r] \subseteq visited'[r]
                /\ queue'[r] # queue[r] =>
                      /\ Head(queue[r]) \in visited'[r]
                      /\ \A i \in DOMAIN queue'[r] :
                            i >= Len(queue[r]) => queue'[r][i] \notin visited[r]]_vars

\* the graph A -> B, B -> C, C -> B: the traversal has dequeued A, B and C, each
\* once, although two edges lead to B and B and C lie on a cycle
C20_Witness ==
    /\ pc[1] = "traverse"
    /\ Edges = <<Edge("A", "B"), Edge("B", "C"), Edge("C", "B")>>
    /\ visited[1] = {"A", "B", "C"}
    /\ queue[1] = <<>>
    /\ VisitingOf(1) = <<"A", "B", "C">>

-----------------------------------------------------------------------------
\* C21: update_agent_status(id, status) leaves the stored agent as loading the
\* agent, calling set_status(status) on it and writing it back with update_agent
\* does, all at the time of the command: the status is set, updated_at is stamped
\* and, for an active target, metrics.last_active is stamped as well.
C21_StatusCommandIsSetStatus ==
    [][\A id \in DOMAIN agents, status \in AgentStatuses :
          (/\ acall'[2] = StatusCall("update_agent_status", id, status)
           /\ (acall'[2] # acall[2] \/ agents' # agents)) =>
             agents'[id] =
                UpdateAgentRow(agents, id,
                    AgentRowFrom(SetStatusOf(AgentFromRow(id, agents[id]),
                                             status, now, now)),
                    now)[id]]_vars

-----------------------------------------------------------------------------
\* caller c calls a method on the agent it loaded
CallsMethod(c) == apc[c] = "loaded" /\ apc'[c] = "changed"

\* C22 as stated: of the operations on an agent record only
\* record_task_completion changes a field of its AgentMetrics.
C22_OnlyRecordChangesMetrics ==
    [][\A c \in Callers :
          (CallsMethod(c) /\ snap'[c].metrics # snap[c].metrics) =>
             acall'[c].op = "record_task_completion"]_vars

\* C22: a new agent has the default metrics; set_status leaves total_tasks,
\* completed_tasks, failed_tasks, total_tokens, avg_response_time_ms and
\* uptime_seconds unchanged, and changes last_active exactly when its target is
\* Running, WaitingForInput, WaitingForApproval or Paused, to the time of the call;
\* record_task_completion leaves uptime_seconds and last_active unchanged.
C22_MetricsFrame ==
    [][\A c \in Callers :
          /\ NewEnhancedAgent("a1", "n1", now).metrics = DefaultMetrics
          /\ (CallsMethod(c) /\ acall'[c].op = "set_status") =>
                snap'[c].metrics =
                   [snap[c].metrics EXCEPT
                       !.last_active =
                          IF acall'[c].status \in {"Running", "WaitingForInput",
                                                   "WaitingForApproval", "Paused"}
                          THEN SomeString(ToRfc3339(now')) ELSE @]
          /\ (CallsMethod(c) /\ acall'[c].op = "record_task_completion") =>
                /\ snap'[c].metrics.uptime_seconds = snap[c].metrics.uptime_seconds
                /\ snap'[c].metrics.last_active = snap[c].metrics.last_active]_vars

\* caller 1 called set_status(Paused) at time 2 on the agent it loaded, which no
\* one had activated: last_active is time 2 and the counters are as loaded
C22_Witness ==
    /\ apc[1] = "changed"
    /\ acall[1] = StatusCall("set_status", "a1", "Paused")
    /\ snap[1].metrics = [DefaultMetrics EXCEPT !.last_active = SomeString(ToRfc3339(2))]
    /\ AgentFromRow("a1", agents["a1"]).metrics = DefaultMetrics

-----------------------------------------------------------------------------
\* C23: after complete(), duration_ms is the difference in milliseconds between the
\* completion time the same call stamped in completed_at and created_at; when
\* created_at is a timestamp not later than that time, with a clock that never
\* goes backwards, the value is that exact non-negative difference, not wrapped.
C23_DurationIsCompletedMinusCreated ==
    [][(/\ icall'.op = "complete"
        /\ (interaction' # interaction \/ icall' # icall)
        /\ interaction.created_at.rfc3339
        /\ interaction.created_at.millis <= interaction'.completed_at.str.millis) =>
          interaction'.duration_ms =
             SomeU64([two64 |-> 0,
                      plus |-> interaction'.completed_at.str.millis
                                  - interaction.created_at.millis])]_vars

-----------------------------------------------------------------------------
\* C24: the metrics start at zero, and every record_task_completion call adds 1 to
\* total_tasks, adds 1 to completed_tasks and nothing to failed_tasks when success
\* is true, adds 1 to failed_tasks and nothing to completed_tasks when it is false,
\* and adds its tokens argument to total_tokens. So after any sequence of calls
\* completed_tasks and failed_tasks count the calls with success true and false,
\* their sum is total_tasks, the number of calls, and total_tokens is the sum of
\* the tokens arguments.
C24_CountersFollowCalls ==
    [][LET before == snap[1].metrics
           after == snap'[1].metrics
           call == acall'[1]
       IN  /\ recorded[1] = <<>> =>
                 /\ before.total_tasks = 0
                 /\ before.completed_tasks = 0
                 /\ before.failed_tasks = 0
                 /\ before.total_tokens = 0
           /\ Len(recorded'[1]) = Len(recorded[1]) + 1 =>
                 /\ call.op = "record_task_completion"
                 /\ after.total_tasks = before.total_tasks + 1
                 /\ after.completed_tasks =
                       before.completed_tasks + (IF call.success THEN 1 ELSE 0)
                 /\ after.failed_tasks =
                       before.failed_tasks + (IF call.success THEN 0 ELSE 1)
                 /\ after.total_tokens = before.total_tokens + call.tokens
                 /\ after.completed_tasks + after.failed_tasks = after.total_tasks
                 /\ after.total_tasks = Len(recorded'[1])]_vars

\* three calls were made, two with success and one without, two of them with one
\* token: the counters are 2 and 1 of 3, and total_tokens is 2
C24_Witness ==
    /\ Len(recorded[1]) = 3
    /\ acall[1] = RecordCall("a1", FALSE, 1, 0)
    /\ snap[1].metrics.total_tasks = 3
    /\ snap[1].metrics.completed_tasks = 2
    /\ snap[1].metrics.failed_tasks = 1
    /\ snap[1].metrics.total_tokens = 2

-----------------------------------------------------------------------------
\* C25: under every interleaving of the queries of concurrent create_role,
\* update_role and delete_role commands, a stored row whose is_built_in flag is
\* true is never modified and never deleted.
C25_BuiltInRowsNeverChange ==
    [][\A id \in DOMAIN roles :
          roles[id].is_built_in =>
             /\ id \in DOMAIN roles'
             /\ roles'[id] = roles[id]]_vars

-----------------------------------------------------------------------------
\* C26: a Visiting event is emitted only for ids of declared nodes. When a visited
\* node has an edge to an id that no node declares, that id is marked visited and,
\* if it was not visited before, enqueued like any other; when it is dequeued the
\* step emits nothing and only removes it from the queue; and a run on a graph
\* with exactly one start node whose emits all succeed returns Ok(()) after the
\* traversal-complete log and execution-finished with success = true.
C26_UndeclaredTargetsAreSilent ==
    [][/\ \A i \in DOMAIN emits'[1] :
             IsVisiting(emits'[1][i]) => emits'[1][i].node \in DeclaredIds
       /\ (pc[1] = "traverse" /\ Len(VisitingOf(1)') > Len(VisitingOf(1))) =>
             \A e \in EdgeSet :
                e.source = Head(queue[1]) =>
                   /\ e.target \in visited'[1]
                   /\ e.target \notin visited[1] => e.target \in Range(queue'[1])
       /\ (pc[1] = "traverse" /\ queue[1] # <<>> /\ Head(queue[1]) \notin DeclaredIds) =>
             /\ queue'[1] = Tail(queue[1])
             /\ UNCHANGED <<pc, result, emits, window, visited>>
       /\ (pc'[1] = "done" /\ result'[1] # ErrEmit /\ Validated) =>
             /\ result'[1] = Ok
             /\ Len(WindowOf(1)') >= 2
             /\ WindowOf(1)'[Len(WindowOf(1)') - 1] = LogComplete
             /\ WindowOf(1)'[Len(WindowOf(1)')] = Finished(TRUE)]_vars

\* the graph declares only A and has the edge A -> B: B was marked visited,
\* queued and dequeued, the only Visiting event is that of A, and the run
\* returned Ok(()) after the traversal-complete log and execution-finished
C26_Witness ==
    /\ Nodes = <<"A">>
    /\ Edges = <<Edge("A", "B")>>
    /\ pc[1] = "done"
    /\ result[1] = Ok
    /\ visited[1] = {"A", "B"}
    /\ queue[1] = <<>>
    /\ WindowOf(1) = <<LogVisiting("A"), LogComplete, Finished(TRUE)>>

-----------------------------------------------------------------------------
\* C27: after any sequence of AgentInteraction::new, complete(), fail() and
\* update_interaction_status applied to an interaction, completed_at is set exactly
\* when the status is Completed, Failed or Cancelled, and is unset when the status
\* is Pending or InProgress: in the interaction a caller holds and in every row
\* create_interaction stored from it.
C27_CompletedAtIffTerminal ==
    /\ interaction.completed_at.some <=>
          interaction.status \in {"Completed", "Failed", "Cancelled"}
    /\ \A id \in DOMAIN interactions :
          interactions[id].completed_at.some <=>
             InteractionFromRow(id, interactions[id]).status \in
                {"Completed", "Failed", "Cancelled"}

\* an interaction was completed and stored, update_interaction_status moved its
\* row back to Pending, and the caller then called fail on its copy: the row has
\* a duration and no completed_at, the copy is Failed with a completed_at
C27_Witness ==
    /\ icall.op = "fail"
    /\ interaction.status = "Failed"
    /\ interaction.completed_at.some
    /\ "i1" \in DOMAIN interactions
    /\ interactions["i1"].status = InteractionStatusJson["Pending"]
    /\ interactions["i1"].duration_ms.some
    /\ ~interactions["i1"].completed_at.some

-----------------------------------------------------------------------------
\* C28: update_interaction_status(id, s) changes only the status and the
\* completed_at of the stored interaction with that id: its duration_ms, its content
\* and its other columns are left as they were, no row is added or removed and the
\* other rows are unchanged. So a row moved to Completed by the command keeps an
\* unset duration_ms, and a row moved from Completed back to Pending keeps the
\* duration_ms it had. (The step of a call is the one that leaves the call in icall
\* and does not move the clock.)
C28_OnlyStatusAndCompletedAt ==
    [][\A id \in StoredIds, s \in InteractionStatuses :
          (icall' = CalledOn("update_interaction_status", id, s) /\ now' = now) =>
             /\ DOMAIN interactions' = DOMAIN interactions
             /\ \A k \in DOMAIN interactions :
                   /\ DOMAIN interactions'[k] = DOMAIN interactions[k]
                   /\ \A f \in DOMAIN interactions[k] :
                         (k # id \/ f \notin {"status", "completed_at"}) =>
                            interactions'[k][f] = interactions[k][f]
                   /\ InteractionFromRow(k, interactions'[k]).duration_ms =
                         InteractionFromRow(k, interactions[k]).duration_ms
                   /\ InteractionFromRow(k, interactions'[k]).message =
                         InteractionFromRow(k, interactions[k]).message]_vars

\* update_interaction_status(i1, Pending) was called on a row that has a duration:
\* the row is Pending without completed_at and still has the duration
C28_Witness ==
    /\ icall = CalledOn("update_interaction_status", "i1", "Pending")
    /\ interactions["i1"].status = InteractionStatusJson["Pending"]
    /\ interactions["i1"].completed_at = NoString
    /\ interactions["i1"].duration_ms = [some |-> TRUE, val |-> MaxClock + 1]
    /\ interactions["i1"].content_json = <<"m">>

-----------------------------------------------------------------------------
\* C29: update_role, delete_role and update_agent_status given an id that has no
\* stored row return success and leave the store unchanged. For the role
\* commands: the guard query finds no row, reports no error and lets the command
\* go on to its write; the write, the id still having no row, leaves the roles
\* as they were (no row created, none altered) and the command returns Ok, with
\* the role it was handed for update_role. For update_agent_status: the call
\* leaves the agents as they were and returns (its only return after the UPDATE
\* is Ok(())).
C29_MissingIdIsSilent ==
    [][/\ \A c \in Cmds :
            /\ (StartsMutation(c) /\ rreq'[c].id \notin DOMAIN roles) =>
                  /\ roles' = roles
                  /\ rres'[c] = NoResult
                  /\ rpc'[c] = IF rreq'[c].op = "update" THEN "update_write"
                                                         ELSE "delete_write"
            /\ (rpc[c] \in {"update_write", "delete_write"} /\ rpc'[c] = "returned"
                   /\ rreq[c].id \notin DOMAIN roles) =>
                  /\ roles' = roles
                  /\ rres'[c] = IF rreq[c].op = "update" THEN RoleOk(rreq[c].role)
                                                         ELSE RoleOk(NoRole)
      /\ \A c \in Callers, id \in StatusIds, status \in AgentStatuses :
            (acall'[c] = StatusCall("update_agent_status", id, status)
                /\ now' = now /\ roles' = roles /\ rpc' = rpc
                /\ id \notin DOMAIN agents) =>
                  /\ agents' = agents
                  /\ apc'[c] = "idle"]_vars

\* update_role of r1 returned Ok while r1 had no row and update_agent_status was
\* called with a0, which has no row: the roles hold only r0 and the agents only
\* a2, both as they were stored
C29_Witness ==
    /\ rpc[1] = "returned" /\ rreq[1].op = "update" /\ rreq[1].id = "r1"
    /\ rres[1] = RoleOk(rreq[1].role)
    /\ DOMAIN roles = {"r0"}
    /\ roles["r0"].name = "n1" /\ roles["r0"].updated_at = 0
    /\ acall[2] = StatusCall("update_agent_status", "a0", "Running")
    /\ DOMAIN agents = {"a2"}
    /\ agents["a2"] = AgentRowFrom(NewEnhancedAgent("a2", "n1", 1))
    /\ now > 1

-----------------------------------------------------------------------------
\* C30, as stated: what get_interaction_stats returns satisfies total = completed
\* + failed + pending, its pending is the number of the selected stored
\* interactions whose status is Pending, InProgress or Cancelled, and its completed
\* and failed are the numbers of the selected rows whose status create_interaction
\* or update_interaction_status wrote as Completed and as Failed. (The step is the
\* one in which the command returns; the rows are the stored ones at that step.)
C30_StatsCountStoredRows ==
    [][(stats.pc = "failed" /\ stats'.pc = "returned") =>
          LET selected == SelectedRows(interactions', stats'.workflow_id)
              WithStatus(S) ==
                 Cardinality({id \in selected :
                     InteractionFromRow(id, interactions'[id]).status \in S})
          IN  /\ stats'.total = stats'.completed + stats'.failed + stats'.pending
              /\ stats'.total = Cardinality(selected)
              /\ stats'.pending = WithStatus({"Pending", "InProgress", "Cancelled"})
              /\ stats'.completed = WithStatus({"Completed"})
              /\ stats'.failed = WithStatus({"Failed"})]_vars

====
